---- MODULE Spec2Model ----
(***************************************************************************)
(* Model of wikiwiki's two core modules:                                   *)
(*   src/src/lib/entityResolver.js  (resolveEntity, resolveEntityFrom-     *)
(*                                   Candidate and the enrichments)        *)
(*   src/src/lib/graphBuilder.js    (buildGraph, extractConnectedEntities) *)
(*                                                                         *)
(* JavaScript strings are modelled as sequences of one-character strings,  *)
(* so that prefixing ("wiki:" + title), startsWith and includes are        *)
(* computed rather than assumed.                                           *)
(***************************************************************************)
EXTENDS Integers, Sequences, FiniteSets, TLC

(***************************************************************************)
(* Bounds of the model.                                                    *)
(***************************************************************************)
MaxLinks == 2      \* longest free tail of an article's link list
MaxClaims == 1     \* most claim values per structured-data property
MaxCap == 2        \* largest maxNodesPerLevel passed to buildGraph
MaxTitles == 3     \* most titles returned by one search
MaxIds == 4      \* longest id list passed to resolveConnectedEntities
MaxConcurrent == 3  \* largest maxConcurrent passed to it
MaxSpin == 4     \* how far below zero the loop index is followed
MaxCalls == 2    \* handler calls of the page followed together
ScenarioLinks == 40  \* length of the link list of the default-call scenario

(***************************************************************************)
(* Strings.                                                                *)
(***************************************************************************)
Undefined == "undefined"

StartsWith(s, p) ==
  /\ Len(p) <= Len(s)
  /\ \A i \in 1..Len(p) : s[i] = p[i]

Includes(s, sub) ==
  \E k \in 0..(Len(s) - Len(sub)) : \A i \in 1..Len(sub) : s[k + i] = sub[i]

Digits == {"0", "1", "2", "3", "4", "5", "6", "7", "8", "9"}

\* /^\d+$/.test(title)
IsAllDigits(s) == Len(s) > 0 /\ \A i \in 1..Len(s) : s[i] \in Digits

UpperToLower ==
  [c \in {"A", "B", "C", "D", "E", "F", "G", "H", "I", "J", "K", "L", "M",
          "N", "O", "P", "Q", "R", "S", "T", "U", "V", "W", "X", "Y", "Z",
          "É", "È", "Û"} |->
     CASE c = "A" -> "a" [] c = "B" -> "b" [] c = "C" -> "c" [] c = "D" -> "d"
       [] c = "E" -> "e" [] c = "F" -> "f" [] c = "G" -> "g" [] c = "H" -> "h"
       [] c = "I" -> "i" [] c = "J" -> "j" [] c = "K" -> "k" [] c = "L" -> "l"
       [] c = "M" -> "m" [] c = "N" -> "n" [] c = "O" -> "o" [] c = "P" -> "p"
       [] c = "Q" -> "q" [] c = "R" -> "r" [] c = "S" -> "s" [] c = "T" -> "t"
       [] c = "U" -> "u" [] c = "V" -> "v" [] c = "W" -> "w" [] c = "X" -> "x"
       [] c = "Y" -> "y" [] c = "Z" -> "z" [] c = "É" -> "é" [] c = "È" -> "è"
       [] c = "Û" -> "û"]

\* String.prototype.toLowerCase
ToLowerCase(s) ==
  [i \in 1..Len(s) |-> IF s[i] \in DOMAIN UpperToLower THEN UpperToLower[s[i]] ELSE s[i]]

\* Array.prototype.slice(from, to) on a 1-based sequence, negative indices
\* counted from the end as in JavaScript.
Slice(s, from, to) ==
  LET n == Len(s)
      norm(k) == IF k < 0 THEN (IF n + k < 0 THEN 0 ELSE n + k)
                 ELSE (IF k > n THEN n ELSE k)
      a == norm(from)
      b == norm(to)
  IN  IF b <= a THEN <<>> ELSE [i \in 1..(b - a) |-> s[a + i]]

\* All sequences over S of length at most n.
SeqsUpTo(S, n) == UNION {[1..k -> S] : k \in 0..n}

(***************************************************************************)
(* graphBuilder.js: constants.                                             *)
(***************************************************************************)
SCORE_STRUCTURAL == 3
SCORE_CONTEXTUAL == 2
SCORE_ASSOCIATIVE == 1

\* Object.entries(IMPORTANT_PROPERTIES), in insertion order.
IMPORTANT_PROPERTIES ==
  << <<"P31", "type">>, <<"P106", "occupation">>, <<"P800", "notable_work">>,
     <<"P136", "genre">>, <<"P101", "field_of_work">>, <<"P737", "influenced_by">>,
     <<"P175", "performer">>, <<"P161", "cast_member">>, <<"P57", "director">>,
     <<"P279", "subclass_of">> >>

\* Number of leading links scored CONTEXTUAL (index < 10).
ContextualLinks == 10

WikiPrefix == <<"w", "i", "k", "i", ":">>

\* `wiki:${linkTitle}`
WikiId(title) == WikiPrefix \o title

(***************************************************************************)
(* isLinkNoise(title)                                                      *)
(***************************************************************************)
Siecle == <<"s", "i", "è", "c", "l", "e">>

TechnicalPrefixes ==
  { <<"A", "i", "d", "e", ":">>,
    <<"M", "o", "d", "è", "l", "e", ":">>,
    <<"W", "i", "k", "i", "p", "é", "d", "i", "a", ":">>,
    <<"P", "o", "r", "t", "a", "i", "l", ":">>,
    <<"C", "a", "t", "é", "g", "o", "r", "i", "e", ":">>,
    <<"F", "i", "c", "h", "i", "e", "r", ":">>,
    <<"P", "r", "o", "j", "e", "t", ":">>,
    <<"D", "i", "s", "c", "u", "s", "s", "i", "o", "n", ":">>,
    <<"S", "p", "é", "c", "i", "a", "l", ":">>,
    <<"L", "i", "s", "t", "e", " ", "d", "e">> }

Months ==
  { <<"j", "a", "n", "v", "i", "e", "r">>,
    <<"f", "é", "v", "r", "i", "e", "r">>,
    <<"m", "a", "r", "s">>,
    <<"a", "v", "r", "i", "l">>,
    <<"m", "a", "i">>,
    <<"j", "u", "i", "n">>,
    <<"j", "u", "i", "l", "l", "e", "t">>,
    <<"a", "o", "û", "t">>,
    <<"s", "e", "p", "t", "e", "m", "b", "r", "e">>,
    <<"o", "c", "t", "o", "b", "r", "e">>,
    <<"n", "o", "v", "e", "m", "b", "r", "e">>,
    <<"d", "é", "c", "e", "m", "b", "r", "e">> }

\* the filter without the test on all-digit titles
isLinkNoiseNoDigits(title) ==
  \/ Includes(title, Siecle)
  \/ \E p \in TechnicalPrefixes : StartsWith(title, p)
  \/ \E m \in Months : Includes(ToLowerCase(title), m)

isLinkNoise(title) ==
  \/ IsAllDigits(title)
  \/ Includes(title, Siecle)
  \/ \E p \in TechnicalPrefixes : StartsWith(title, p)
  \/ \E m \in Months : Includes(ToLowerCase(title), m)

(***************************************************************************)
(* State.                                                                  *)
(***************************************************************************)
VARIABLES
  \* buildGraph (graphBuilder.js)
  gpc,               \* position of the buildGraph call
  centerEntity,      \* its arguments
  depth,
  maxNodesPerLevel,
  graph,             \* [nodes, edges]
  visited,           \* Set of ids
  queue,             \* BFS queue of [entity, level]
  labelRequest,      \* the wbgetentities request in flight, or NoRequest
  labelOutcome,      \* how fetchWikidataLabels ended, once it has
  \* entityResolver.js
  CURRENT_LANG,      \* the module-level language
  rpc,               \* position of the resolveEntity / resolveEntityFromCandidate call
  entry,             \* which of the two the caller called
  searchResults,     \* titles returned by the search
  idx,               \* index of the title being looked up
  candidates,        \* [title, wikidataId] kept so far
  candArgs,          \* arguments of resolveEntityFromCandidate
  entity,            \* the entity under construction
  epc,               \* position of each enrichment operation
  result,            \* what resolveEntity returned or threw
  candResult,        \* what resolveEntityFromCandidate returned or threw
  \* history
  found,             \* the ids the lookups answered with
  scanned,           \* the search and every lookup have answered
  failedCalls,       \* the enrichments one of whose calls failed
  requests,          \* the requests issued, with the language of their URL
  fetched,           \* the record the call received and the language it read then
  previous,          \* the preceding call with the same arguments, once returned
  lastSet,           \* the argument of the latest setLanguage, if any
  firstSeen,         \* per id, the first lookup answer that carried it, in order
  inFlight,          \* indices of the titles whose lookup is awaiting its answer
  \* resolveConnectedEntities (graphBuilder.js)
  cpc,               \* position of the call
  entityIds,         \* its arguments
  maxConcurrent,
  ci,                \* the loop index i
  status,            \* per position of entityIds: the state of its resolution
  results,           \* the values collected so far
  \* the page (handleSearch, handleNodeClick)
  handlers,          \* per handler call: its kind, the entity it leads to, its position
  startOrder,        \* the handler calls in the order they started
  pageEntity,        \* let entity
  pageGraph,         \* let graph
  pageError          \* let error

gvars == <<gpc, centerEntity, depth, maxNodesPerLevel, graph, visited, queue, labelOutcome,
           labelRequest>>

hvars == <<fetched, previous, lastSet>>

rvars == <<CURRENT_LANG, rpc, entry, searchResults, idx, candidates, candArgs,
           entity, epc, result, candResult, found, scanned, failedCalls, requests,
           hvars, firstSeen, inFlight>>

pvars == <<handlers, startOrder, pageEntity, pageGraph, pageError>>

xvars == <<cpc, entityIds, maxConcurrent, ci, status, results, pvars>>

vars == <<gvars, rvars, xvars>>

(***************************************************************************)
(* Inputs of buildGraph.                                                   *)
(***************************************************************************)
Q1 == <<"Q", "1">>
Q2 == <<"Q", "2">>
Q3 == <<"Q", "3">>
Jazz == <<"J", "a", "z", "z">>
Y1959 == <<"1", "9", "5", "9">>
XIXeSiecle == <<"X", "I", "X", "e", " ", "s", "i", "è", "c", "l", "e">>
NoValue == <<>>          \* a claim without datavalue, or whose value has no id

CenterIds == {Q1, Q2}
ValueIds == {NoValue, Q2, WikiId(Jazz)}
LinkTitles == {Jazz, Y1959}
Depths == {0, 1, 2}

FillDigits == <<"0", "1", "2", "3", "4", "5", "6", "7", "8", "9">>
\* ten distinct non-noise titles "F0" .. "F9" filling the contextual positions
Filler == [i \in 1..ContextualLinks |-> <<"F", FillDigits[i]>>]

NoRequest == <<>>        \* no request in flight

\* ten titles the noise filter drops, filling the contextual positions
NoisePad == [i \in 1..ContextualLinks |-> IF i % 2 = 1 THEN Y1959 ELSE XIXeSiecle]

\* tails that open with a century title
CenturyTails == {<<XIXeSiecle>>, <<XIXeSiecle, Jazz>>}

LinkLists ==
  {pad \o tail : pad \in {<<>>, Filler, NoisePad},
                 tail \in SeqsUpTo(LinkTitles, MaxLinks) \cup CenturyTails}

\* claims objects: the two first IMPORTANT_PROPERTIES carry drawn values,
\* P18 (not an important property) always carries Q3.
ClaimSets ==
  {[p \in {"P31", "P106", "P18"} |->
      IF p = "P18" THEN <<Q3>> ELSE c[p]] :
     c \in [{"P31", "P106"} -> SeqsUpTo(ValueIds, MaxClaims)]}

\* hasLinks is FALSE when sources.wikipedia or its links property is absent
GraphEntity(id, claims, hasLinks, links) ==
  [id |-> id, name |-> Jazz, type |-> "concept",
   claims |-> claims,        \* sources.wikidata.claims
   hasLinks |-> hasLinks,
   links |-> links]          \* sources.wikipedia.links

GraphEntities ==
  {GraphEntity(id, c, TRUE, l) : id \in CenterIds, c \in ClaimSets, l \in LinkLists}
    \cup {GraphEntity(id, c, FALSE, <<>>) : id \in CenterIds, c \in ClaimSets}

NoEntity == GraphEntity(<<>>, [p \in {} |-> <<>>], FALSE, <<>>)

(***************************************************************************)
(* extractConnectedEntities(entity)                                        *)
(* connectedMap is a JavaScript Map: a sequence of entries in order of     *)
(* first insertion; set() on a present key replaces the value in place.    *)
(***************************************************************************)
MapHas(m, id) == \E i \in 1..Len(m) : m[i].id = id

MapSet(m, e) ==
  IF MapHas(m, e.id)
    THEN [i \in 1..Len(m) |-> IF m[i].id = e.id THEN e ELSE m[i]]
    ELSE Append(m, e)

StructuralCandidate(valueId, relationType) ==
  [id |-> valueId, label |-> valueId, type |-> relationType,
   score |-> SCORE_STRUCTURAL, source |-> "wikidata"]

RECURSIVE AddClaims(_, _, _)
\* claims[prop].forEach(...) for one property
AddClaims(m, values, relationType) ==
  IF values = <<>> THEN m
  ELSE LET v == Head(values)
           m1 == IF v # NoValue THEN MapSet(m, StructuralCandidate(v, relationType)) ELSE m
       IN  AddClaims(m1, Tail(values), relationType)

RECURSIVE AddProperties(_, _, _)
\* for (const [prop, relationType] of Object.entries(IMPORTANT_PROPERTIES))
AddProperties(m, claims, props) ==
  IF props = <<>> THEN m
  ELSE LET prop == Head(props)[1]
           relationType == Head(props)[2]
           m1 == IF prop \in DOMAIN claims
                   THEN AddClaims(m, claims[prop], relationType)
                   ELSE m
       IN  AddProperties(m1, claims, Tail(props))

\* the contextual score given to one link too many
LinkCandidateOffByOne(linkTitle, index) ==
  [id |-> WikiId(linkTitle), label |-> linkTitle, type |-> "related",
   score |-> IF index <= ContextualLinks THEN SCORE_CONTEXTUAL ELSE SCORE_ASSOCIATIVE,
   source |-> "wikipedia"]

LinkCandidateAlwaysContextual(linkTitle, index) ==
  [id |-> WikiId(linkTitle), label |-> linkTitle, type |-> "related",
   score |-> SCORE_CONTEXTUAL, source |-> "wikipedia"]

LinkCandidate(linkTitle, index) ==
  [id |-> WikiId(linkTitle), label |-> linkTitle, type |-> "related",
   score |-> IF index < ContextualLinks THEN SCORE_CONTEXTUAL ELSE SCORE_ASSOCIATIVE,
   source |-> "wikipedia"]

\* the forEach body without the connectedMap.has(id) test
AddLinkOverwrite(m, linkTitle, index) ==
  IF isLinkNoise(linkTitle) THEN m
  ELSE MapSet(m, LinkCandidate(linkTitle, index))

\* the body of links.forEach((linkTitle, index) => ...)
AddLink(m, linkTitle, index) ==
  IF isLinkNoise(linkTitle) THEN m
  ELSE IF MapHas(m, WikiId(linkTitle)) THEN m
  ELSE MapSet(m, LinkCandidate(linkTitle, index))

RECURSIVE AddLinks(_, _, _)
\* links.forEach, from position index on; the map of one iteration is a value
\* before the next link is visited (the test on its length is always true)
AddLinks(m, links, index) ==
  IF index >= Len(links) THEN m
  ELSE LET m1 == AddLink(m, links[index + 1], index)
       IN  IF Len(m1) >= Len(m) THEN AddLinks(m1, links, index + 1) ELSE m1

\* .sort((a, b) => b.score - a.score): stable, descending score
SortByScore(m) ==
  SelectSeq(m, LAMBDA e : e.score = SCORE_STRUCTURAL)
    \o SelectSeq(m, LAMBDA e : e.score = SCORE_CONTEXTUAL)
    \o SelectSeq(m, LAMBDA e : e.score = SCORE_ASSOCIATIVE)

extractConnectedEntities(ent) ==
  LET m1 == AddProperties(<<>>, ent.claims, IMPORTANT_PROPERTIES)
      m2 == IF ent.hasLinks THEN AddLinks(m1, ent.links, 0) ELSE m1
  IN  SortByScore(m2)

(***************************************************************************)
(* buildGraph(centerEntity, depth, maxNodesPerLevel)                       *)
(***************************************************************************)
\* createNode called without its third argument: isCenter takes its default
createNodeDefaultFlag(ent, level, isCenter) ==
  [id |-> ent.id, label |-> ent.name, type |-> ent.type,
   level |-> level, isCenter |-> FALSE]

\* createNode(entity, level, isCenter); description and thumbnail are copied
\* from the entity and read by nothing in these modules.
createNode(ent, level, isCenter) ==
  [id |-> ent.id, label |-> ent.name, type |-> ent.type,
   level |-> level, isCenter |-> isCenter]

\* the object pushed by addEdge(graph, fromId, toId, type, origin, score)
addEdge(fromId, toId, type, origin, score) ==
  [source |-> fromId, target |-> toId, type |-> type, origin |-> origin,
   value |-> score]

\* the node literal of line 73: it has no isCenter property
ConnectedNodeLevelTwo(connected, level) ==
  [id |-> connected.id, label |-> connected.label, type |-> connected.type,
   level |-> level + 2, score |-> connected.score]

ConnectedNode(connected, level) ==
  [id |-> connected.id, label |-> connected.label, type |-> connected.type,
   level |-> level + 1, score |-> connected.score]

\* the filter without the slice
LimitEntitiesNoSlice(connectedEntities, cap) ==
  SelectSeq(connectedEntities, LAMBDA e : e.score >= SCORE_CONTEXTUAL)

\* the slice without the filter
LimitEntitiesNoFilter(connectedEntities, cap) ==
  Slice(connectedEntities, 0, cap)

\* connectedEntities.filter(e => e.score >= 2).slice(0, maxNodesPerLevel)
LimitEntities(connectedEntities, cap) ==
  Slice(SelectSeq(connectedEntities, LAMBDA e : e.score >= SCORE_CONTEXTUAL), 0, cap)

\* the loop body without the visited test: a node is pushed for every candidate
ExpandOneNoVisited(st, fromId, level, connected) ==
  [nodes |-> Append(st.nodes, ConnectedNode(connected, level)),
   edges |-> Append(st.edges, addEdge(fromId, connected.id, connected.type,
                                      connected.source, connected.score)),
   visited |-> st.visited \cup {connected.id}]

\* the loop body passing the candidate's label to addEdge instead of its id
ExpandOneEdgeToLabel(st, fromId, level, connected) ==
  LET edge == addEdge(fromId, connected.label, connected.type, connected.source,
                      connected.score)
  IN  IF connected.id \in st.visited
        THEN [st EXCEPT !.edges = Append(@, edge)]
        ELSE [nodes |-> Append(st.nodes, ConnectedNode(connected, level)),
              edges |-> Append(st.edges, edge),
              visited |-> st.visited \cup {connected.id}]

\* one iteration of: for (const connected of limitedEntities)
\* st = [nodes, edges, visited]
ExpandOne(st, fromId, level, connected) ==
  LET edge == addEdge(fromId, connected.id, connected.type, connected.source,
                      connected.score)
  IN  IF connected.id \in st.visited
        THEN [st EXCEPT !.edges = Append(@, edge)]
        ELSE [nodes |-> Append(st.nodes, ConnectedNode(connected, level)),
              edges |-> Append(st.edges, edge),
              visited |-> st.visited \cup {connected.id}]

RECURSIVE Expand(_, _, _, _)
Expand(st, fromId, level, limited) ==
  IF limited = <<>> THEN st
  ELSE Expand(ExpandOne(st, fromId, level, Head(limited)), fromId, level, Tail(limited))

EmptyGraph == [nodes |-> <<>>, edges |-> <<>>]

GraphInit ==
  /\ gpc = "idle"
  /\ centerEntity = NoEntity
  /\ depth = 0
  /\ maxNodesPerLevel = 0
  /\ graph = EmptyGraph
  /\ visited = {}
  /\ queue = <<>>
  /\ labelRequest = NoRequest
  /\ labelOutcome = "none"

\* lines 37-54: buildGraph(e, d, cap), up to the seeding of the queue
BuildGraphCall(e, d, cap) ==
  /\ centerEntity' = e
  /\ depth' = d
  /\ maxNodesPerLevel' = cap
  /\ graph' = [nodes |-> <<createNode(e, 0, TRUE)>>, edges |-> <<>>]
  /\ visited' = {e.id}
  /\ queue' = <<[entity |-> e, level |-> 0]>>
  /\ gpc' = "loop"
  /\ UNCHANGED <<labelRequest, labelOutcome>>

\* a call with any of the bounded arguments
BuildGraphStart ==
  /\ gpc = "idle"
  /\ \E e \in GraphEntities, d \in Depths, cap \in 0..MaxCap : BuildGraphCall(e, d, cap)
  /\ UNCHANGED <<rvars, xvars>>

\* lines 56-80: one iteration of the while loop
BuildGraphLoop ==
  /\ gpc = "loop"
  /\ queue # <<>>
  /\ LET ent == Head(queue).entity
         level == Head(queue).level
     IN  /\ queue' = Tail(queue)
         /\ IF level >= depth
              THEN UNCHANGED <<graph, visited>>
              ELSE LET limited == LimitEntities(extractConnectedEntities(ent),
                                                maxNodesPerLevel)
                       st == Expand([nodes |-> graph.nodes, edges |-> graph.edges,
                                     visited |-> visited],
                                    ent.id, level, limited)
                   IN  /\ graph' = [nodes |-> st.nodes, edges |-> st.edges]
                       /\ visited' = st.visited
  /\ UNCHANGED <<gpc, centerEntity, depth, maxNodesPerLevel, labelRequest, labelOutcome, rvars, xvars>>

\* graph.nodes.filter(node => node.id.startsWith('Q')).map(node => node.id)
qidsToTranslate(nodes) ==
  LET qs == SelectSeq(nodes, LAMBDA n : StartsWith(n.id, <<"Q">>))
  IN  [i \in 1..Len(qs) |-> qs[i].id]

\* lines 82-87 and 237-251: the loop is over; issue the batched label lookup
BuildGraphRequestLabels ==
  /\ gpc = "loop"
  /\ queue = <<>>
  /\ LET ids == qidsToTranslate(graph.nodes)
     IN  IF Len(ids) > 0
           THEN /\ labelRequest' = <<[ids |-> ids, languages |-> "fr"]>>
                /\ gpc' = "awaitLabels"
           ELSE /\ labelRequest' = NoRequest
                /\ gpc' = "done"
  /\ UNCHANGED <<centerEntity, depth, maxNodesPerLevel, graph, visited, queue, labelOutcome,
                 rvars, xvars>>

\* the label the knowledge base holds for an id
LabelOf(id) == <<"L", "-">> \o id

\* a map that holds only the ids the response has a label for
LabelsMapKnownOnly(ids, known) ==
  [id \in {ids[i] : i \in 1..Len(ids)} \cap known |-> LabelOf(id)]

\* lines 253-260: labels[id] = data.entities[id]?.labels?.[lang]?.value || id
\* known = the ids for which the response carries a label in the language
LabelsMap(ids, known) ==
  [id \in {ids[i] : i \in 1..Len(ids)} |-> IF id \in known THEN LabelOf(id) ELSE id]

\* a pass that falls back on the id of a node the map does not hold
ApplyLabelsOrId(nodes, labelsMap) ==
  [i \in 1..Len(nodes) |->
     [nodes[i] EXCEPT !.label = IF nodes[i].id \in DOMAIN labelsMap
                                  THEN labelsMap[nodes[i].id]
                                  ELSE nodes[i].id]]

\* lines 88-92: graph.nodes.forEach(node => { if (labelsMap[node.id]) ... })
ApplyLabels(nodes, labelsMap) ==
  [i \in 1..Len(nodes) |->
     IF nodes[i].id \in DOMAIN labelsMap
       THEN [nodes[i] EXCEPT !.label = labelsMap[nodes[i].id]]
       ELSE nodes[i]]

\* lines 252-260 and 88-96: the response arrives with data.entities
FetchLabelsOk ==
  /\ gpc = "awaitLabels"
  /\ LET ids == labelRequest[1].ids
     IN  \E known \in SUBSET {ids[i] : i \in 1..Len(ids)} :
           graph' = [graph EXCEPT !.nodes = ApplyLabels(@, LabelsMap(ids, known))]
  /\ gpc' = "done"
  /\ labelRequest' = NoRequest
  /\ labelOutcome' = "entities"
  /\ UNCHANGED <<centerEntity, depth, maxNodesPerLevel, visited, queue, rvars, xvars>>

\* lines 255, 260-264: a response without data.entities, or fetch / json()
\* throwing: labelsMap is {} and no label changes
FetchLabelsEmpty ==
  /\ gpc = "awaitLabels"
  /\ graph' = [graph EXCEPT !.nodes = ApplyLabels(@, <<>>)]
  /\ gpc' = "done"
  /\ labelRequest' = NoRequest
  /\ labelOutcome' = "empty"
  /\ UNCHANGED <<centerEntity, depth, maxNodesPerLevel, visited, queue, rvars, xvars>>

GraphNext ==
  \/ BuildGraphStart
  \/ BuildGraphLoop
  \/ BuildGraphRequestLabels
  \/ FetchLabelsOk
  \/ FetchLabelsEmpty


(***************************************************************************)
(* The default call buildGraph(entity) on an entity with three structural  *)
(* relations and a long link list whose first ten titles are not noise.    *)
(***************************************************************************)
\* the defaults of buildGraph's parameters
DefaultDepth == 1
DefaultMaxNodesPerLevel == 20

Q4 == <<"Q", "4">>

\* three relations to three distinct items, spread over the important
\* properties in three ways; P18 is not an important property
ScenarioClaims ==
  UNION {
    { [p \in {"P31", "P106", "P136", "P18"} |->
         CASE p = "P31" -> <<ids[1]>> [] p = "P106" -> <<ids[2]>>
           [] p = "P136" -> <<ids[3]>> [] OTHER -> <<Q1>>],
      [p \in {"P31"} |-> ids],
      [p \in {"P57", "P279"} |->
         IF p = "P57" THEN <<ids[1], NoValue>> ELSE <<ids[2], ids[3]>>] }
    : ids \in {<<Q2, Q3, Q4>>, <<Q4, Q2, Q3>>} }

\* ten titles that are not noise; in the second and third, one title of
\* the ten comes twice
ScenarioHeads ==
  {Filler, [Filler EXCEPT ![2] = Filler[1]], [Filler EXCEPT ![ContextualLinks] = Jazz]}

\* the i-th link beyond the first ten, when it is a title of its own
Fresh(i) == <<"G", FillDigits[(i \div 10) + 1], FillDigits[(i % 10) + 1]>>

TailKinds == {"fresh", "year", "repeat"}

\* the links beyond the first ten follow a pattern of period 3
ScenarioTail(pattern) ==
  [i \in 1..(ScenarioLinks - ContextualLinks) |->
     CASE pattern[((i - 1) % 3) + 1] = "fresh" -> Fresh(i)
       [] pattern[((i - 1) % 3) + 1] = "year" -> Y1959
       [] OTHER -> Filler[1]]

ScenarioEntities ==
  {GraphEntity(Q1, c, TRUE, h \o ScenarioTail(pat)) :
     c \in ScenarioClaims, h \in ScenarioHeads, pat \in [1..3 -> TailKinds]}

\* buildGraph(entity): depth and maxNodesPerLevel take their defaults
BuildGraphDefault ==
  /\ gpc = "idle"
  /\ \E e \in ScenarioEntities :
       BuildGraphCall(e, DefaultDepth, DefaultMaxNodesPerLevel)
  /\ UNCHANGED <<rvars, xvars>>

\* link lists that put titles on both sides of the tenth entry, behind real
\* titles and behind noise
DepthLinkLists ==
  {<<>>, <<Jazz, Y1959, Jazz>>, Filler \o <<Jazz>>, Filler \o <<Filler[1], Jazz>>,
   NoisePad \o <<Jazz>>, NoisePad \o <<XIXeSiecle, Jazz>>}

DepthEntities ==
  {GraphEntity(id, c, TRUE, l) : id \in CenterIds, c \in ClaimSets, l \in DepthLinkLists}
    \cup {GraphEntity(id, c, FALSE, <<>>) : id \in CenterIds, c \in ClaimSets}

\* depths below, at and above the one level the loop expands, and caps
\* below and above the number of candidates
DepthsTried == {0 - 1, 0, 1, 2}
CapsTried == {0, 2, DefaultMaxNodesPerLevel}

\* a call with any of these depths and caps
BuildGraphAtDepth ==
  /\ gpc = "idle"
  /\ \E e \in DepthEntities, d \in DepthsTried, cap \in CapsTried :
       BuildGraphCall(e, d, cap)
  /\ UNCHANGED <<rvars, xvars>>

DepthNext ==
  \/ BuildGraphAtDepth
  \/ BuildGraphLoop
  \/ BuildGraphRequestLabels
  \/ FetchLabelsOk
  \/ FetchLabelsEmpty

ScenarioNext ==
  \/ BuildGraphDefault
  \/ BuildGraphLoop
  \/ BuildGraphRequestLabels
  \/ FetchLabelsOk
  \/ FetchLabelsEmpty

(***************************************************************************)
(* entityResolver.js: lookup tables.                                       *)
(***************************************************************************)
\* typeMap of inferEntityType, as <<"instance of" id, type>> pairs
typeMap ==
  << <<<<"Q", "5">>, "person">>,
     <<<<"Q", "2", "1", "5", "6", "2", "7">>, "person">>,
     <<<<"Q", "1", "1", "4", "2", "4">>, "film">>,
     <<<<"Q", "5", "3", "9", "8", "4", "2", "6">>, "series">>,
     <<<<"Q", "5", "7", "1">>, "book">>,
     <<<<"Q", "7", "7", "2", "5", "6", "3", "4">>, "book">>,
     <<<<"Q", "8", "3", "4", "1">>, "concept">>,
     <<<<"Q", "7", "2", "7", "8">>, "concept">>,
     <<<<"Q", "5", "1", "5">>, "place">>,
     <<<<"Q", "4", "8", "6", "9", "7", "2">>, "place">>,
     <<<<"Q", "7", "2", "7", "5">>, "place">>,
     <<<<"Q", "8", "5", "0", "2">>, "place">>,
     <<<<"Q", "4", "0", "2", "2">>, "place">>,
     <<<<"Q", "3", "5", "1", "2", "7">>, "concept">>,
     <<<<"Q", "2", "8", "6", "4", "0">>, "person">>,
     <<<<"Q", "1", "6", "4", "4", "5", "7", "3">>, "concept">>,
     <<<<"Q", "1", "1", "1", "7", "3">>, "concept">> >>

\* Object.entries(propertyMap) of extractExternalIdentifiers
propertyMap ==
  << <<"P434", "musicbrainz">>,
     <<"P1004", "musicbrainz_work">>,
     <<"P4985", "tmdb">>,
     <<"P214", "viaf">>,
     <<"P227", "gnd">>,
     <<"P1953", "discogs">>,
     <<"P646", "freebase">>,
     <<"P648", "openlibrary">>,
     <<"P345", "imdb">>,
     <<"P1233", "isfdb_author">>,
     <<"P496", "orcid">>,
     <<"P625", "coordinates">>,
     <<"P18", "image">> >>

\* TMDB_API_KEY = null: the key is not configured
TMDB_API_KEY_SET == FALSE

\* the enrichment operations, in the order of the Promise.allSettled array
Enrichments ==
  <<"wikipedia", "external_links", "musicbrainz", "tmdb", "openlibrary",
    "wikimedia_commons", "openstreetmap", "arxiv", "archive_org">>

EnrichmentNames == {Enrichments[i] : i \in 1..Len(Enrichments)}

(***************************************************************************)
(* Inputs of the resolver: what the providers may answer.                  *)
(***************************************************************************)
Blues == <<"B", "l", "u", "e", "s">>
Langs == {"fr", "en"}
SearchTitles == {Jazz, Blues}
ItemIds == {Q1, Q2}

\* the page: the handler calls followed, and null
Calls == 1..MaxCalls
Null == [id |-> <<>>, by |-> 0]

\* resolveConnectedEntities: the id lists and the batch sizes passed
IdLists == SeqsUpTo({Q1, Q2}, MaxIds)
Concurrencies == (0 - 2)..MaxConcurrent

Q5 == <<"Q", "5">>
Q515 == <<"Q", "5", "1", "5">>
Q8341 == <<"Q", "8", "3", "4", "1">>
Q11424 == <<"Q", "1", "1", "4", "2", "4">>

NoClaims == [p \in {} |-> <<>>]
NoLabels == [l \in {} |-> <<>>]

\* data.entities[wikidataId] of Special:EntityData
Record(claims, labels) == [claims |-> claims, labels |-> labels]

\* a musician, a concept (first of two "instance of" values), a place with
\* coordinates, an author with an Open Library author id, a film with a TMDB
\* id and an Open Library id of unknown shape, and a record without claims
\* and labels
Records ==
  { Record([p \in {"P31", "P434"} |->
              IF p = "P31" THEN <<Q5>> ELSE << <<"m", "b", "1">> >>],
           [l \in {"fr", "en"} |-> IF l = "fr" THEN <<"N", "f">> ELSE <<"N", "e">>]),
    Record([p \in {"P31"} |-> <<Q8341, Q5>>],
           [l \in {"en"} |-> <<"N", "e">>]),
    Record([p \in {"P31", "P625"} |->
              IF p = "P31" THEN <<Q515>> ELSE << <<"4", "8", ",", "2">> >>],
           [l \in {"fr"} |-> <<"N", "f">>]),
    Record([p \in {"P31", "P648"} |->
              IF p = "P31" THEN <<Q5>> ELSE << <<"O", "L", "1", "A">> >>],
           [l \in {"fr", "en"} |-> IF l = "fr" THEN <<"N", "f">> ELSE <<"N", "e">>]),
    Record([p \in {"P31", "P4985", "P648"} |->
              IF p = "P31" THEN <<Q11424>>
              ELSE IF p = "P4985" THEN << <<"6", "0", "3">> >>
              ELSE << <<"X", "1">> >>],
           [l \in {"en"} |-> <<"N", "e">>]),
    Record(NoClaims, NoLabels) }

\* the parsed JSON of the pageprops query for one title
LookupResponses ==
  {[kind |-> "noquery", item |-> NoValue, title |-> <<>>],
   [kind |-> "missing", item |-> NoValue, title |-> <<>>]}
    \cup {[kind |-> "page", item |-> i, title |-> t] :
            i \in ItemIds \cup {NoValue}, t \in SearchTitles}

\* the first links of the article, as returned by action=parse&prop=links
ArticleLinks == {<<>>, <<Jazz, Y1959>>}

(***************************************************************************)
(* State of the resolver.                                                  *)
(***************************************************************************)
NoArgs == [title |-> <<>>, wikidataId |-> <<>>]
Pending == [kind |-> "pending", error |-> "none"]
EntityResult == [kind |-> "Entity", error |-> "none"]
DisambiguationResult == [kind |-> "Disambiguation", error |-> "none"]
Thrown(err) == [kind |-> "Error", error |-> err]

\* the two messages of resolveEntity's own throw statements
NotFoundErrors == {"NoResult", "NoValidArticle"}

Payload(by, claims, hasLinks, links) ==
  [by |-> by, claims |-> claims, hasLinks |-> hasLinks, links |-> links]

NoResolved ==
  [id |-> <<>>, name |-> <<>>, type |-> "entity", identifiers |-> <<>>,
   sources |-> <<>>]

NoLang == "none"
NoFetched == [record |-> Record(NoClaims, NoLabels), lang |-> NoLang]
\* what the caller compares of an entity: id, name, type, identifiers
Identity(e) == [id |-> e.id, name |-> e.name, type |-> e.type,
                identifiers |-> e.identifiers]
NoPrevious == [args |-> NoArgs, fetched |-> NoFetched, entity |-> Identity(NoResolved)]

ResolverInit ==
  /\ CURRENT_LANG \in Langs
  /\ rpc = "idle"
  /\ entry = "none"
  /\ searchResults = <<>>
  /\ idx = 0
  /\ candidates = <<>>
  /\ found = {}
  /\ scanned = FALSE
  /\ candArgs = NoArgs
  /\ entity = NoResolved
  /\ epc = [p \in EnrichmentNames |-> "idle"]
  /\ failedCalls = {}
  /\ requests = {}
  /\ result = Pending
  /\ candResult = Pending
  /\ fetched = NoFetched
  /\ previous = NoPrevious
  /\ lastSet = NoLang
  /\ firstSeen = <<>>
  /\ inFlight = {}

(***************************************************************************)
(* Pure helpers of entityResolver.js                                       *)
(***************************************************************************)
\* getLabel(entity, lang): <<>> stands for undefined
getLabel(rec, lang) ==
  IF lang \in DOMAIN rec.labels /\ rec.labels[lang] # <<>> THEN rec.labels[lang]
  ELSE IF "en" \in DOMAIN rec.labels /\ rec.labels["en"] # <<>> THEN rec.labels["en"]
  ELSE <<>>

\* claims[prop]?.[0] value, <<>> when there is none
FirstValue(claims, prop) ==
  IF prop \in DOMAIN claims /\ Len(claims[prop]) > 0 THEN claims[prop][1] ELSE NoValue

inferEntityType(rec) ==
  LET instanceOf == FirstValue(rec.claims, "P31")
      hits == {k \in 1..Len(typeMap) : typeMap[k][1] = instanceOf}
  IN  IF hits # {} THEN typeMap[CHOOSE k \in hits : TRUE][2] ELSE "entity"

extractExternalIdentifiers(rec) ==
  LET present == {k \in 1..Len(propertyMap) :
                    FirstValue(rec.claims, propertyMap[k][1]) # NoValue}
  IN  [n \in {propertyMap[k][2] : k \in present} |->
         FirstValue(rec.claims,
                    propertyMap[CHOOSE k \in present : propertyMap[k][2] = n][1])]

\* lines 99-111: the base entity
BaseEntityIdFromTitle(title, wikidataId, rec, lang) ==
  [id |-> title,
   name |-> IF getLabel(rec, lang) # <<>> THEN getLabel(rec, lang) ELSE title,
   type |-> inferEntityType(rec),
   identifiers |-> extractExternalIdentifiers(rec),
   sources |-> ("wikidata" :> Payload("resolveEntityFromCandidate", rec.claims,
                                      FALSE, <<>>))]

BaseEntity(title, wikidataId, rec, lang) ==
  [id |-> wikidataId,
   name |-> IF getLabel(rec, lang) # <<>> THEN getLabel(rec, lang) ELSE title,
   type |-> inferEntityType(rec),
   identifiers |-> extractExternalIdentifiers(rec),
   sources |-> ("wikidata" :> Payload("resolveEntityFromCandidate", rec.claims,
                                      FALSE, <<>>))]

\* lines 173-184: what getWikidataIdFromWikipedia returns for a response;
\* null is [page |-> FALSE]
getWikidataIdFromWikipedia(resp) ==
  IF resp.kind = "page"
    THEN [page |-> TRUE, id |-> resp.item, realTitle |-> resp.title]
    ELSE [page |-> FALSE, id |-> NoValue, realTitle |-> <<>>]

\* lines 56-64 without the test on alreadyExists
AddCandidateNoDedup(cands, r) ==
  IF r.page /\ r.id # NoValue
    THEN Append(cands, [title |-> r.realTitle, wikidataId |-> r.id])
    ELSE cands

\* lines 56-64 with the title of an id already listed replaced by the latest
AddCandidateLatestTitle(cands, r) ==
  IF r.page /\ r.id # NoValue
    THEN IF \E i \in 1..Len(cands) : cands[i].wikidataId = r.id
           THEN [i \in 1..Len(cands) |->
                   IF cands[i].wikidataId = r.id
                     THEN [cands[i] EXCEPT !.title = r.realTitle]
                     ELSE cands[i]]
           ELSE Append(cands, [title |-> r.realTitle, wikidataId |-> r.id])
    ELSE cands

\* lines 56-64: keep the result unless it has no id or its id is already listed
AddCandidate(cands, r) ==
  IF r.page /\ r.id # NoValue
    THEN IF \E i \in 1..Len(cands) : cands[i].wikidataId = r.id
           THEN cands
           ELSE Append(cands, [title |-> r.realTitle, wikidataId |-> r.id])
    ELSE cands

\* the decision with the empty test left out
DecisionNoEmptyTest(titles, cands) ==
  IF Len(cands) = 1 THEN "resolve" ELSE "disambiguation"

\* the decision taken on the number of titles instead of candidates
DecisionOnTitles(titles, cands) ==
  IF Len(cands) = 0 THEN "throw"
  ELSE IF Len(titles) = 1 THEN "resolve"
  ELSE "disambiguation"

\* lines 67-81: what resolveEntity does once every title is looked up
Decision(titles, cands) ==
  IF Len(cands) = 0 THEN "throw"
  ELSE IF Len(cands) = 1 THEN "resolve"
  ELSE "disambiguation"

\* a catch block that reports every failure as "not found"
RethrowAsNotFound(err) == "NoResult"

\* lines 83-86 and 128-131: catch (error) { ...; throw error }
Rethrow(err) == err

\* a join that rejects as soon as a provider call has failed
JoinFailFast(failed) ==
  IF failed = {} THEN EntityResult ELSE Thrown("EnrichmentFailed")

\* lines 114-126: await Promise.allSettled([...]); return entity
JoinAllSettled(failed) == EntityResult

\* the synchronous parts with the media-archive search run for every type
LaunchedArchiveAlways(e) ==
  [p \in EnrichmentNames |->
     CASE p = "musicbrainz" ->
            IF "musicbrainz" \in DOMAIN e.identifiers THEN "fetch" ELSE "done"
       [] p = "tmdb" ->
            IF "tmdb" \in DOMAIN e.identifiers /\ TMDB_API_KEY_SET THEN "fetch" ELSE "done"
       [] p = "openlibrary" ->
            IF /\ "openlibrary" \in DOMAIN e.identifiers
               /\ StartsWith(e.identifiers["openlibrary"], <<"O", "L">>)
               /\ \/ Includes(e.identifiers["openlibrary"], <<"A">>)
                  \/ Includes(e.identifiers["openlibrary"], <<"W">>)
              THEN "fetch" ELSE "done"
       [] p = "openstreetmap" ->
            IF "coordinates" \in DOMAIN e.identifiers THEN "fetch" ELSE "done"
       [] p = "arxiv" -> IF e.type = "concept" THEN "fetch" ELSE "done"
       [] OTHER -> "fetch"]

\* the state of each enrichment after its synchronous part (up to its first
\* await), lines 379, 410, 439-451, 519, 554, 594-601
Launched(e) ==
  [p \in EnrichmentNames |->
     CASE p = "musicbrainz" ->
            IF "musicbrainz" \in DOMAIN e.identifiers THEN "fetch" ELSE "done"
       [] p = "tmdb" ->
            IF "tmdb" \in DOMAIN e.identifiers /\ TMDB_API_KEY_SET THEN "fetch" ELSE "done"
       [] p = "openlibrary" ->
            IF /\ "openlibrary" \in DOMAIN e.identifiers
               /\ StartsWith(e.identifiers["openlibrary"], <<"O", "L">>)
               /\ \/ Includes(e.identifiers["openlibrary"], <<"A">>)
                  \/ Includes(e.identifiers["openlibrary"], <<"W">>)
              THEN "fetch" ELSE "done"
       [] p = "openstreetmap" ->
            IF "coordinates" \in DOMAIN e.identifiers THEN "fetch" ELSE "done"
       [] p = "arxiv" -> IF e.type = "concept" THEN "fetch" ELSE "done"
       [] p = "archive_org" -> IF e.type = "concept" THEN "done" ELSE "fetch"
       [] OTHER -> "fetch"]

\* the requests whose URL is built on the module-level language: lines 146,
\* 170, 252, 272, 301 (getWikipediaAPI, getWikipediaRestAPI) and 415
Localised == {"search", "lookup", "wikipedia", "wikipedia.links", "external_links",
              "tmdb"}

\* a host name that ignores the module-level language
getWikipediaAPIFixed(lang) == "fr"

\* `https://${CURRENT_LANG}.wikipedia.org/...`: the language of the URL
getWikipediaAPI(lang) == lang

\* a request of the given kind issued while the language is lang
Request(kind, lang) ==
  <<kind, IF kind \in Localised THEN getWikipediaAPI(lang) ELSE NoLang>>

\* the requests issued by the synchronous parts
LaunchRequests(e, lang) ==
  {Request(p, lang) : p \in {q \in EnrichmentNames : Launched(e)[q] = "fetch"}}

\* the sources object replaced by one holding the new key only
SetSourceRetypes(e, key, payload) ==
  [e EXCEPT !.sources = (key :> payload) @@ e.sources, !.type = key]

SetSourceReplace(e, key, payload) ==
  [e EXCEPT !.sources = (key :> payload)]

\* entity.sources.<key> = payload
SetSource(e, key, payload) ==
  [e EXCEPT !.sources = (key :> payload) @@ e.sources]

(***************************************************************************)
(* resolveEntity(searchTerm)                                               *)
(***************************************************************************)
enrichVars == <<entity, epc, failedCalls>>
scanVars == <<searchResults, idx, candidates, found, scanned, firstSeen, inFlight>>

\* line 42-44 and 137-147: the call, up to the search request
ResolveEntityStart ==
  /\ rpc = "idle"
  /\ rpc' = "search"
  /\ entry' = "resolveEntity"
  /\ requests' = requests \cup {Request("search", CURRENT_LANG)}
  /\ UNCHANGED <<gvars, xvars, hvars, CURRENT_LANG, scanVars, candArgs, enrichVars, result, candResult>>

\* lines 147-156, 46-53: the search answers with titles (a response that is
\* not an array counts as no title); the first lookup is requested
SearchResponse ==
  /\ rpc = "search"
  /\ \E titles \in SeqsUpTo(SearchTitles, MaxTitles) :
       /\ searchResults' = titles
       /\ IF Len(titles) = 0
            THEN /\ result' = Thrown(Rethrow("NoResult"))
                 /\ rpc' = "done"
                 /\ scanned' = TRUE
                 /\ UNCHANGED <<idx, requests, inFlight>>
            ELSE /\ rpc' = "lookup"
                 /\ idx' = 1
                 /\ requests' = requests \cup {Request("lookup", CURRENT_LANG)}
                 /\ inFlight' = inFlight \cup {1}
                 /\ UNCHANGED <<result, scanned>>
  /\ UNCHANGED <<gvars, xvars, hvars, CURRENT_LANG, entry, candidates, found, firstSeen, candArgs,
                 enrichVars, candResult>>

\* lines 147-148, 83-86: fetch or response.json() of the search throws
SearchFail ==
  /\ rpc = "search"
  /\ result' = Thrown(Rethrow("SearchFailed"))
  /\ rpc' = "done"
  /\ UNCHANGED <<gvars, xvars, hvars, CURRENT_LANG, entry, scanVars, candArgs, enrichVars, requests, candResult>>

\* lines 53-81 and 93-97: the lookup of title idx answers; either the next
\* lookup is requested or, after the last title, the decision is taken
LookupResponse ==
  /\ rpc = "lookup"
  /\ \E resp \in LookupResponses :
       LET r == getWikidataIdFromWikipedia(resp)
           cands == AddCandidate(candidates, r)
       IN  /\ candidates' = cands
           /\ found' = IF r.page /\ r.id # NoValue THEN found \cup {r.id} ELSE found
           /\ firstSeen' = IF r.page /\ r.id # NoValue /\ r.id \notin found
                              THEN Append(firstSeen, [title |-> resp.title,
                                                      wikidataId |-> resp.item])
                              ELSE firstSeen
           /\ IF idx < Len(searchResults)
                THEN /\ idx' = idx + 1
                     /\ requests' = requests \cup {Request("lookup", CURRENT_LANG)}
                     /\ inFlight' = (inFlight \ {idx}) \cup {idx + 1}
                     /\ UNCHANGED <<rpc, scanned, result, candArgs>>
                ELSE /\ scanned' = TRUE
                     /\ inFlight' = inFlight \ {idx}
                     /\ UNCHANGED idx
                     /\ CASE Decision(searchResults, cands) = "throw" ->
                               /\ result' = Thrown(Rethrow("NoValidArticle"))
                               /\ rpc' = "done"
                               /\ UNCHANGED <<candArgs, requests>>
                          [] Decision(searchResults, cands) = "resolve" ->
                               /\ candArgs' = [title |-> cands[1].title,
                                               wikidataId |-> cands[1].wikidataId]
                               /\ rpc' = "canon"
                               /\ requests' = requests \cup {Request("wikidata", CURRENT_LANG)}
                               /\ UNCHANGED result
                          [] OTHER ->
                               /\ result' = DisambiguationResult
                               /\ rpc' = "done"
                               /\ UNCHANGED <<candArgs, requests>>
  /\ UNCHANGED <<gvars, xvars, hvars, CURRENT_LANG, entry, searchResults, enrichVars, candResult>>

\* lines 170-171, 83-86: fetch or response.json() of a lookup throws
LookupFail ==
  /\ rpc = "lookup"
  /\ result' = Thrown(Rethrow("LookupFailed"))
  /\ rpc' = "done"
  /\ inFlight' = inFlight \ {idx}
  /\ UNCHANGED <<gvars, xvars, hvars, CURRENT_LANG, entry, searchResults, idx, candidates, found,
                 scanned, firstSeen, candArgs, enrichVars, requests, candResult>>

(***************************************************************************)
(* resolveEntityFromCandidate(title, wikidataId)                           *)
(***************************************************************************)
\* lines 93-97: a direct call (after disambiguation, node click, history)
ResolveFromCandidateStart ==
  /\ rpc = "idle"
  /\ \E t \in SearchTitles, id \in ItemIds :
       candArgs' = [title |-> t, wikidataId |-> id]
  /\ entry' = "resolveEntityFromCandidate"
  /\ rpc' = "canon"
  /\ requests' = requests \cup {Request("wikidata", CURRENT_LANG)}
  /\ UNCHANGED <<gvars, xvars, hvars, CURRENT_LANG, scanVars, enrichVars, result, candResult>>

\* lines 97-124: the record arrives, the base entity is built and every
\* enrichment runs up to its first await; the knowledge base answers a
\* repeated call with the record it answered the preceding one with
CanonicalResponse ==
  /\ rpc = "canon"
  /\ \E rec \in IF previous = NoPrevious THEN Records ELSE {previous.fetched.record} :
       LET e == BaseEntity(candArgs.title, candArgs.wikidataId, rec, CURRENT_LANG)
       IN  /\ entity' = e
           /\ epc' = Launched(e)
           /\ requests' = requests \cup LaunchRequests(e, CURRENT_LANG)
           /\ fetched' = [record |-> rec, lang |-> CURRENT_LANG]
  /\ rpc' = "enrich"
  /\ UNCHANGED <<gvars, xvars, previous, lastSet, CURRENT_LANG, entry, scanVars, candArgs, failedCalls, result, candResult>>

\* lines 190-197, 101, 128-131, 83-86: the fetch or json() throws, or the
\* response has no record for the id (getLabel then throws)
CanonicalFail ==
  /\ rpc = "canon"
  /\ candResult' = Thrown(Rethrow("CanonicalFailed"))
  /\ result' = IF entry = "resolveEntity"
                 THEN Thrown(Rethrow(Rethrow("CanonicalFailed")))
                 ELSE result
  /\ rpc' = "done"
  /\ UNCHANGED <<gvars, xvars, hvars, CURRENT_LANG, entry, scanVars, candArgs, enrichVars, requests>>

\* a join that does not wait for the pauses
SettledBeforePause(at) ==
  \A p \in EnrichmentNames : at[p] \in {"done", "delay"}

\* line 114: Promise.allSettled resolves once each of the nine promises has
\* settled, that is once each operation has run to its end
Settled(at) ==
  \A p \in EnrichmentNames : at[p] = "done"

\* lines 114-126, 74: every enrichment has settled; the entity is returned
AllSettled ==
  /\ rpc = "enrich"
  /\ Settled(epc)
  /\ candResult' = JoinAllSettled(failedCalls)
  /\ result' = IF entry = "resolveEntity"
                 THEN (IF JoinAllSettled(failedCalls).kind = "Error"
                         THEN Thrown(Rethrow(JoinAllSettled(failedCalls).error))
                         ELSE JoinAllSettled(failedCalls))
                 ELSE result
  /\ rpc' = "done"
  /\ UNCHANGED <<gvars, xvars, hvars, CURRENT_LANG, entry, scanVars, candArgs, enrichVars, requests>>

(***************************************************************************)
(* The enrichment operations, one action per resumption after an await.    *)
(***************************************************************************)
Running(p, at) == rpc = "enrich" /\ epc[p] = at

resolverFrame == <<gvars, xvars, hvars, CURRENT_LANG, rpc, entry, scanVars, candArgs, result, candResult>>

\* the operation p ends and writes nothing more
Settle(p) == epc' = [epc EXCEPT ![p] = "done"]

\* the catch block of operation p: console.warn and nothing else
Caught(p) ==
  /\ Settle(p)
  /\ failedCalls' = failedCalls \cup {p}
  /\ UNCHANGED <<entity, requests>>

\* lines 251-272: the summary arrives; sources.wikipedia is written and the
\* links are requested
WikipediaSummary ==
  /\ Running("wikipedia", "fetch")
  /\ entity' = SetSource(entity, "wikipedia", Payload("wikipedia", NoClaims, FALSE, <<>>))
  /\ epc' = [epc EXCEPT !["wikipedia"] = "links"]
  /\ requests' = requests \cup {Request("wikipedia.links", CURRENT_LANG)}
  /\ UNCHANGED <<resolverFrame, failedCalls>>

\* lines 251-254, 281-283
WikipediaSummaryFail ==
  /\ Running("wikipedia", "fetch")
  /\ Caught("wikipedia")
  /\ UNCHANGED resolverFrame

\* lines 272-279: the links arrive (none when parse.links is missing)
WikipediaLinks ==
  /\ Running("wikipedia", "links")
  /\ \/ \E links \in ArticleLinks :
          entity' = [entity EXCEPT !.sources["wikipedia"] =
                       [@ EXCEPT !.hasLinks = TRUE, !.links = links]]
     \/ UNCHANGED entity
  /\ Settle("wikipedia")
  /\ UNCHANGED <<resolverFrame, failedCalls, requests>>

\* lines 272-273, 281-283
WikipediaLinksFail ==
  /\ Running("wikipedia", "links")
  /\ Caught("wikipedia")
  /\ UNCHANGED resolverFrame

\* an operation with a single request answers: with data it writes its key,
\* without the data it looks for it returns without writing
\* (lines 301-366, 453-463, 490-508, 558-578, 615-654)
SingleRequest == {"external_links", "openlibrary", "wikimedia_commons", "arxiv",
                  "archive_org"}
\* the operations that return without writing when the answer lacks the data
MayLackData == {"external_links", "wikimedia_commons", "arxiv", "archive_org"}

EnrichResponse ==
  \E p \in SingleRequest :
    /\ Running(p, "fetch")
    /\ \/ entity' = SetSource(entity, p, Payload(p, NoClaims, FALSE, <<>>))
       \/ p \in MayLackData /\ UNCHANGED entity
    /\ Settle(p)
    /\ UNCHANGED <<resolverFrame, failedCalls, requests>>

\* the catch blocks of the same operations
EnrichFail ==
  \E p \in SingleRequest :
    /\ Running(p, "fetch")
    /\ Caught(p)
    /\ UNCHANGED resolverFrame

\* lines 383-389: the artist request answers; the operation then waits 1 s
MusicBrainzResponse ==
  /\ Running("musicbrainz", "fetch")
  /\ epc' = [epc EXCEPT !["musicbrainz"] = "delay"]
  /\ UNCHANGED <<resolverFrame, entity, failedCalls, requests>>

\* lines 383, 401-403
MusicBrainzFail ==
  /\ Running("musicbrainz", "fetch")
  /\ Caught("musicbrainz")
  /\ UNCHANGED resolverFrame

\* lines 389-399: the pause is over, the body parses, the key is written
MusicBrainzAfterDelay ==
  /\ Running("musicbrainz", "delay")
  /\ entity' = SetSource(entity, "musicbrainz", Payload("musicbrainz", NoClaims, FALSE, <<>>))
  /\ Settle("musicbrainz")
  /\ UNCHANGED <<resolverFrame, failedCalls, requests>>

\* lines 391, 401-403: response.json() throws after the pause
MusicBrainzParseFail ==
  /\ Running("musicbrainz", "delay")
  /\ Caught("musicbrainz")
  /\ UNCHANGED resolverFrame

\* lines 524-542: the reverse geocoding answers, the key is written, then
\* the operation waits 1 s
OpenStreetMapResponse ==
  /\ Running("openstreetmap", "fetch")
  /\ entity' = SetSource(entity, "openstreetmap",
                         Payload("openstreetmap", NoClaims, FALSE, <<>>))
  /\ epc' = [epc EXCEPT !["openstreetmap"] = "delay"]
  /\ UNCHANGED <<resolverFrame, failedCalls, requests>>

\* lines 524-529, 544-546
OpenStreetMapFail ==
  /\ Running("openstreetmap", "fetch")
  /\ Caught("openstreetmap")
  /\ UNCHANGED resolverFrame

\* line 542: the pause is over
OpenStreetMapAfterDelay ==
  /\ Running("openstreetmap", "delay")
  /\ Settle("openstreetmap")
  /\ UNCHANGED <<resolverFrame, entity, failedCalls, requests>>

ResolverNext ==
  \/ ResolveEntityStart
  \/ SearchResponse
  \/ SearchFail
  \/ LookupResponse
  \/ LookupFail
  \/ ResolveFromCandidateStart
  \/ CanonicalResponse
  \/ CanonicalFail
  \/ AllSettled
  \/ WikipediaSummary
  \/ WikipediaSummaryFail
  \/ WikipediaLinks
  \/ WikipediaLinksFail
  \/ EnrichResponse
  \/ EnrichFail
  \/ MusicBrainzResponse
  \/ MusicBrainzFail
  \/ MusicBrainzAfterDelay
  \/ MusicBrainzParseFail
  \/ OpenStreetMapResponse
  \/ OpenStreetMapFail
  \/ OpenStreetMapAfterDelay

(***************************************************************************)
(* setLanguage / getLanguage, a second call of resolveEntityFromCandidate  *)
(* with the same arguments, and buildGraph called on the returned entity.  *)
(***************************************************************************)
\* an assignment that is lost
setLanguageIgnored(current, lang) == current

\* line 711: CURRENT_LANG = lang
setLanguage(current, lang) == lang

\* line 719: return CURRENT_LANG
getLanguage(current) == current

resolverLocals == <<rpc, entry, scanVars, candArgs, enrichVars, result, candResult,
                    requests, fetched, previous>>

\* lines 710-713, called at any moment, also while a resolution is in flight
SetLanguage ==
  /\ \E l \in Langs :
       /\ CURRENT_LANG' = setLanguage(CURRENT_LANG, l)
       /\ lastSet' = l
  /\ UNCHANGED <<gvars, xvars, resolverLocals>>

\* lines 93-97: once the call has returned its entity, the caller calls
\* resolveEntityFromCandidate again with the same title and id
ResolveFromCandidateAgain ==
  /\ rpc = "done"
  /\ gpc = "idle"
  /\ entry = "resolveEntityFromCandidate"
  /\ candResult = EntityResult
  /\ previous = NoPrevious
  /\ previous' = [args |-> candArgs, fetched |-> fetched, entity |-> Identity(entity)]
  /\ entity' = NoResolved
  /\ epc' = [p \in EnrichmentNames |-> "idle"]
  /\ failedCalls' = {}
  /\ fetched' = NoFetched
  /\ candResult' = Pending
  /\ rpc' = "canon"
  /\ requests' = {Request("wikidata", CURRENT_LANG)}
  /\ UNCHANGED <<gvars, xvars, CURRENT_LANG, lastSet, entry, scanVars, candArgs, result>>

\* the entity as buildGraph reads it: id, name, type,
\* sources.wikidata?.claims and sources.wikipedia?.links
AsGraphEntity(e) ==
  LET hasLinks == "wikipedia" \in DOMAIN e.sources /\ e.sources["wikipedia"].hasLinks
  IN  [id |-> e.id, name |-> e.name, type |-> e.type,
       claims |-> e.sources["wikidata"].claims,
       hasLinks |-> hasLinks,
       links |-> IF hasLinks THEN e.sources["wikipedia"].links ELSE <<>>]

\* the caller passes the returned entity to buildGraph(entity, 1)
BuildGraphOnEntity ==
  /\ gpc = "idle"
  /\ rpc = "done"
  /\ candResult = EntityResult
  /\ BuildGraphCall(AsGraphEntity(entity), DefaultDepth, DefaultMaxNodesPerLevel)
  /\ UNCHANGED <<rvars, xvars>>

PipelineNext ==
  \/ ResolveFromCandidateStart
  \/ CanonicalResponse
  \/ CanonicalFail
  \/ AllSettled
  \/ WikipediaSummary
  \/ WikipediaSummaryFail
  \/ WikipediaLinks
  \/ WikipediaLinksFail
  \/ EnrichResponse
  \/ EnrichFail
  \/ MusicBrainzResponse
  \/ MusicBrainzFail
  \/ MusicBrainzAfterDelay
  \/ MusicBrainzParseFail
  \/ OpenStreetMapResponse
  \/ OpenStreetMapFail
  \/ OpenStreetMapAfterDelay
  \/ BuildGraphOnEntity
  \/ BuildGraphLoop
  \/ BuildGraphRequestLabels
  \/ FetchLabelsOk
  \/ FetchLabelsEmpty

\* two calls in a row with the same arguments, the language switched at any
\* moment
RepeatNext ==
  \/ SetLanguage
  \/ ResolveFromCandidateStart
  \/ ResolveFromCandidateAgain
  \/ CanonicalResponse
  \/ CanonicalFail
  \/ AllSettled
  \/ WikipediaSummary
  \/ WikipediaSummaryFail
  \/ WikipediaLinks
  \/ WikipediaLinksFail
  \/ EnrichResponse
  \/ EnrichFail
  \/ MusicBrainzResponse
  \/ MusicBrainzFail
  \/ MusicBrainzAfterDelay
  \/ MusicBrainzParseFail
  \/ OpenStreetMapResponse
  \/ OpenStreetMapFail
  \/ OpenStreetMapAfterDelay

\* a resolution from the search on, the language switched at any moment; of
\* the enrichments only the one that issues a second request is followed,
\* the others stay in flight: they issue no further request and do not
\* read the language
LanguageNext ==
  \/ SetLanguage
  \/ ResolveEntityStart
  \/ SearchResponse
  \/ SearchFail
  \/ LookupResponse
  \/ LookupFail
  \/ ResolveFromCandidateStart
  \/ CanonicalResponse
  \/ CanonicalFail
  \/ WikipediaSummary
  \/ WikipediaSummaryFail
  \/ WikipediaLinks
  \/ WikipediaLinksFail

\* one call of resolveEntityFromCandidate
CandidateNext ==
  \/ ResolveFromCandidateStart
  \/ CanonicalResponse
  \/ CanonicalFail
  \/ AllSettled
  \/ WikipediaSummary
  \/ WikipediaSummaryFail
  \/ WikipediaLinks
  \/ WikipediaLinksFail
  \/ EnrichResponse
  \/ EnrichFail
  \/ MusicBrainzResponse
  \/ MusicBrainzFail
  \/ MusicBrainzAfterDelay
  \/ MusicBrainzParseFail
  \/ OpenStreetMapResponse
  \/ OpenStreetMapFail
  \/ OpenStreetMapAfterDelay

\* every request is answered or fails, every timer fires and every
\* continuation that is ready is run by the event loop
CandidateFairness ==
  /\ WF_vars(CanonicalResponse \/ CanonicalFail)
  /\ WF_vars(AllSettled)
  /\ WF_vars(WikipediaSummary \/ WikipediaSummaryFail)
  /\ WF_vars(WikipediaLinks \/ WikipediaLinksFail)
  /\ WF_vars(EnrichResponse \/ EnrichFail)
  /\ WF_vars(MusicBrainzResponse \/ MusicBrainzFail)
  /\ WF_vars(MusicBrainzAfterDelay \/ MusicBrainzParseFail)
  /\ WF_vars(OpenStreetMapResponse \/ OpenStreetMapFail)
  /\ WF_vars(OpenStreetMapAfterDelay)

(***************************************************************************)
(* resolveConnectedEntities(entityIds, maxConcurrent), lines 210-232.      *)
(***************************************************************************)
\* the positions of entityIds.slice(from, to), as JavaScript counts them
SlicePositions(n, from, to) ==
  LET sl == Slice([j \in 1..n |-> j], from, to)
  IN  {sl[m] : m \in 1..Len(sl)}

\* a batch that takes one id more than maxConcurrent
BatchPositionsOneMore(ids, from, size) ==
  SlicePositions(Len(ids), from, from + size + 1)

\* line 215: const batch = entityIds.slice(i, i + maxConcurrent)
BatchPositions(ids, from, size) ==
  SlicePositions(Len(ids), from, from + size)

\* lines 221-225: results.push(...fulfilled values), in the order of the batch
Fulfilled(ids, st, positions) ==
  LET all == [k \in 1..Len(ids) |-> k]
      kept == SelectSeq(all, LAMBDA k : k \in positions /\ st[k] = "fulfilled")
  IN  [m \in 1..Len(kept) |-> ids[kept[m]]]

\* the batch whose resolutions are in flight or just settled
CurrentBatch == BatchPositions(entityIds, ci, maxConcurrent)

\* a loop that also ends on an empty batch
EnterLoopUntilEmpty(ids, size, from, st) ==
  IF from < Len(ids) /\ BatchPositions(ids, from, size) # {}
    THEN /\ cpc' = "batch"
         /\ status' = [k \in 1..Len(ids) |->
                         IF k \in BatchPositions(ids, from, size) THEN "pending" ELSE st[k]]
    ELSE /\ cpc' = "done"
         /\ status' = st

\* lines 214-219: the loop test, then the batch is sliced and each of its ids
\* is handed to resolveEntity
EnterLoop(ids, size, from, st) ==
  IF from < Len(ids)
    THEN /\ cpc' = "batch"
         /\ status' = [k \in 1..Len(ids) |->
                         IF k \in BatchPositions(ids, from, size) THEN "pending" ELSE st[k]]
    ELSE /\ cpc' = "done"
         /\ status' = st

\* the script block of the page: nothing shown, no handler running
PageInit ==
  /\ handlers = [o \in Calls |-> [kind |-> "none", target |-> <<>>, pc |-> "idle"]]
  /\ startOrder = <<>>
  /\ pageEntity = Null
  /\ pageGraph = Null
  /\ pageError = FALSE

BatchInit ==
  /\ cpc = "idle"
  /\ entityIds = <<>>
  /\ maxConcurrent = 0
  /\ ci = 0
  /\ status = <<>>
  /\ results = <<>>
  /\ PageInit

\* lines 210-219: the call, up to the first await
ResolveConnectedStart ==
  /\ cpc = "idle"
  /\ \E ids \in IdLists, size \in Concurrencies :
       /\ entityIds' = ids
       /\ maxConcurrent' = size
       /\ EnterLoop(ids, size, 0, [k \in 1..Len(ids) |-> "unstarted"])
  /\ ci' = 0
  /\ results' = <<>>
  /\ UNCHANGED <<gvars, rvars, pvars>>

\* one resolveEntity(id) of the batch returns
ResolutionFulfilled ==
  /\ cpc = "batch"
  /\ \E k \in CurrentBatch :
       /\ status[k] = "pending"
       /\ status' = [status EXCEPT ![k] = "fulfilled"]
  /\ UNCHANGED <<gvars, rvars, pvars, cpc, entityIds, maxConcurrent, ci, results>>

\* one resolveEntity(id) of the batch throws
ResolutionRejected ==
  /\ cpc = "batch"
  /\ \E k \in CurrentBatch :
       /\ status[k] = "pending"
       /\ status' = [status EXCEPT ![k] = "rejected"]
  /\ UNCHANGED <<gvars, rvars, pvars, cpc, entityIds, maxConcurrent, ci, results>>

\* lines 217-228: Promise.allSettled resolves, the fulfilled values are
\* pushed and the pause starts
BatchSettled ==
  /\ cpc = "batch"
  /\ \A k \in CurrentBatch : status[k] # "pending"
  /\ results' = results \o Fulfilled(entityIds, status, CurrentBatch)
  /\ cpc' = "pause"
  /\ UNCHANGED <<gvars, rvars, pvars, entityIds, maxConcurrent, ci, status>>

\* lines 228, 214: the pause is over, i += maxConcurrent, the loop test
PauseElapsed ==
  /\ cpc = "pause"
  /\ ci + maxConcurrent >= 0 - MaxSpin
  /\ ci' = ci + maxConcurrent
  /\ EnterLoop(entityIds, maxConcurrent, ci + maxConcurrent, status)
  /\ UNCHANGED <<gvars, rvars, pvars, entityIds, maxConcurrent, results>>

BatchNext ==
  \/ ResolveConnectedStart
  \/ ResolutionFulfilled
  \/ ResolutionRejected
  \/ BatchSettled
  \/ PauseElapsed

(***************************************************************************)
(* The page: handleSearch and handleNodeClick (src/unnamed/part_000).      *)
(* A resolution is taken by its outcome: the entity it returns, a          *)
(* disambiguation list, or an error; buildGraph by the graph it returns,   *)
(* whose center is the entity it was given.                                *)
(***************************************************************************)
batchLocals == <<cpc, entityIds, maxConcurrent, ci, status, results>>

\* what the page shows for a value produced by handler call o
Shown(id, o) == [id |-> id, by |-> o]

\* lines 132-143: handleSearch up to await resolveEntity(searchQuery)
HandleSearchStart ==
  /\ \E o \in Calls, t \in ItemIds :
       /\ handlers[o].pc = "idle"
       /\ handlers' = [handlers EXCEPT ![o] = [kind |-> "search", target |-> t,
                                               pc |-> "resolving"]]
       /\ startOrder' = Append(startOrder, o)
  /\ pageError' = FALSE
  /\ UNCHANGED <<gvars, rvars, batchLocals, pageEntity, pageGraph>>

\* lines 196-205: handleNodeClick up to the await of the resolution
HandleNodeClickStart ==
  /\ \E o \in Calls, t \in ItemIds :
       /\ handlers[o].pc = "idle"
       /\ handlers' = [handlers EXCEPT ![o] = [kind |-> "click", target |-> t,
                                               pc |-> "resolving"]]
       /\ startOrder' = Append(startOrder, o)
  /\ UNCHANGED <<gvars, rvars, batchLocals, pageEntity, pageGraph, pageError>>

\* lines 152-158 and 208-213: the resolution returns an entity; it is
\* assigned to entity and buildGraph(entity, 1) is called
ResolutionReturns ==
  /\ \E o \in Calls :
       /\ handlers[o].pc = "resolving"
       /\ pageEntity' = Shown(handlers[o].target, o)
       /\ handlers' = [handlers EXCEPT ![o].pc = "building"]
  /\ UNCHANGED <<gvars, rvars, batchLocals, startOrder, pageGraph, pageError>>

\* lines 145-150: resolveEntity returns a disambiguation list to handleSearch
SearchNeedsDisambiguation ==
  /\ \E o \in Calls :
       /\ handlers[o].pc = "resolving"
       /\ handlers[o].kind = "search"
       /\ handlers' = [handlers EXCEPT ![o].pc = "done"]
  /\ pageEntity' = Null
  /\ pageGraph' = Null
  /\ UNCHANGED <<gvars, rvars, batchLocals, startOrder, pageError>>

\* lines 162-166 and 220-222: the resolution throws; handleSearch clears
\* entity and graph, handleNodeClick only records the message
ResolutionThrows ==
  /\ \E o \in Calls :
       /\ handlers[o].pc = "resolving"
       /\ handlers' = [handlers EXCEPT ![o].pc = "done"]
       /\ IF handlers[o].kind = "search"
            THEN pageEntity' = Null /\ pageGraph' = Null
            ELSE UNCHANGED <<pageEntity, pageGraph>>
  /\ pageError' = TRUE
  /\ UNCHANGED <<gvars, rvars, batchLocals, startOrder>>

\* lines 158 and 213-217: buildGraph returns; the graph is assigned
GraphReturns ==
  /\ \E o \in Calls :
       /\ handlers[o].pc = "building"
       /\ pageGraph' = Shown(handlers[o].target, o)
       /\ handlers' = [handlers EXCEPT ![o].pc = "done"]
  /\ UNCHANGED <<gvars, rvars, batchLocals, startOrder, pageEntity, pageError>>

PageNext ==
  \/ HandleSearchStart
  \/ HandleNodeClickStart
  \/ ResolutionReturns
  \/ SearchNeedsDisambiguation
  \/ ResolutionThrows
  \/ GraphReturns

(***************************************************************************)
(* Specifications: the two modules run as separate calls.                  *)
(***************************************************************************)
\* buildGraph is called while no resolution is running
InitGraph ==
  /\ GraphInit
  /\ BatchInit
  /\ ResolverInit
  /\ CURRENT_LANG = "fr"

SpecGraph == InitGraph /\ [][GraphNext]_vars

\* the default call of buildGraph, no resolution running
InitScenario ==
  /\ GraphInit
  /\ BatchInit
  /\ ResolverInit
  /\ CURRENT_LANG = "fr"

SpecScenario == InitScenario /\ [][ScenarioNext]_vars

\* the user's path after a choice: resolveEntityFromCandidate, then
\* buildGraph on its entity
InitPipeline ==
  /\ ResolverInit
  /\ GraphInit
  /\ BatchInit

SpecPipeline == InitPipeline /\ [][PipelineNext]_vars

\* resolveEntityFromCandidate called twice while the language may be switched
InitRepeat ==
  /\ ResolverInit
  /\ GraphInit
  /\ BatchInit

SpecRepeat == InitRepeat /\ [][RepeatNext]_vars

\* one call of resolveEntityFromCandidate whose requests all settle
InitCandidate ==
  /\ ResolverInit
  /\ GraphInit
  /\ BatchInit

SpecCandidateFair == InitCandidate /\ [][CandidateNext]_vars /\ CandidateFairness

\* buildGraph called with depths and caps on either side of its limits
InitDepth ==
  /\ GraphInit
  /\ BatchInit
  /\ ResolverInit
  /\ CURRENT_LANG = "fr"

SpecDepth == InitDepth /\ [][DepthNext]_vars

\* the page and its handlers
InitPage ==
  /\ GraphInit
  /\ BatchInit
  /\ ResolverInit
  /\ CURRENT_LANG = "fr"

SpecPage == InitPage /\ [][PageNext]_vars

\* one call of resolveConnectedEntities
InitBatch ==
  /\ GraphInit
  /\ BatchInit
  /\ ResolverInit
  /\ CURRENT_LANG = "fr"

SpecBatch == InitBatch /\ [][BatchNext]_vars

\* every resolution settles, every pause ends, every continuation is run
BatchFairness ==
  /\ WF_vars(ResolutionFulfilled \/ ResolutionRejected)
  /\ WF_vars(BatchSettled)
  /\ WF_vars(PauseElapsed)

SpecBatchFair == InitBatch /\ [][BatchNext]_vars /\ BatchFairness

\* a resolution while the language may be switched
InitLanguage ==
  /\ ResolverInit
  /\ GraphInit
  /\ BatchInit

SpecLanguage == InitLanguage /\ [][LanguageNext]_vars

\* a resolution runs while no graph is being built
InitResolve ==
  /\ ResolverInit
  /\ GraphInit
  /\ BatchInit

SpecResolve == InitResolve /\ [][ResolverNext]_vars

(***************************************************************************)
(* Properties of buildGraph (checked under SpecGraph).                     *)
(***************************************************************************)
NodeIds(g) == {g.nodes[i].id : i \in 1..Len(g.nodes)}
IsCenterNode(n) == "isCenter" \in DOMAIN n /\ n.isCenter = TRUE
Returned == gpc = "done"

\* the candidates of the center that pass the score filter
Eligible == SelectSeq(extractConnectedEntities(centerEntity),
                      LAMBDA e : e.score >= SCORE_CONTEXTUAL)

\* C6: in every returned graph each edge's source and each edge's target is
\* the id of some node of that graph.
C6_EdgeEndsAreNodes ==
  Returned =>
    \A i \in 1..Len(graph.edges) :
      /\ graph.edges[i].source \in NodeIds(graph)
      /\ graph.edges[i].target \in NodeIds(graph)

\* a returned graph with an edge to a new textual node and an edge back to
\* the already visited center
C6_Witness ==
  /\ Returned
  /\ \E i \in 1..Len(graph.edges) : graph.edges[i].target = centerEntity.id
  /\ \E i \in 1..Len(graph.edges) : graph.edges[i].target = WikiId(Jazz)

\* C7: in every returned graph no node id appears twice.
C7_NodeIdsUnique ==
  Returned =>
    \A i, j \in 1..Len(graph.nodes) :
      graph.nodes[i].id = graph.nodes[j].id => i = j

\* a returned graph whose center has a claim pointing at the center itself,
\* and the same id under two properties, with room for both under the cap
C7_Witness ==
  /\ Returned
  /\ depth >= 1
  /\ maxNodesPerLevel >= 2
  /\ centerEntity.id = Q2
  /\ centerEntity.claims["P31"] = <<Q2>>
  /\ centerEntity.claims["P106"] = <<Q2>>
  /\ centerEntity.links = <<Jazz, Jazz>>
  /\ \E i \in 1..Len(graph.edges) : graph.edges[i].target = centerEntity.id
  /\ Len(graph.nodes) >= 2

\* C8: in every returned graph exactly one node has isCenter = true; it has
\* level 0 and the id of the center entity.
C8_ExactlyOneCenter ==
  Returned =>
    /\ Cardinality({i \in 1..Len(graph.nodes) : IsCenterNode(graph.nodes[i])}) = 1
    /\ \A i \in 1..Len(graph.nodes) :
         IsCenterNode(graph.nodes[i]) =>
           graph.nodes[i].level = 0 /\ graph.nodes[i].id = centerEntity.id

C8_Witness ==
  /\ Returned
  /\ Len(graph.nodes) >= 3

StructuralTypes(ent, id) ==
  {IMPORTANT_PROPERTIES[k][2] : k \in
     {k \in 1..Len(IMPORTANT_PROPERTIES) :
        /\ IMPORTANT_PROPERTIES[k][1] \in DOMAIN ent.claims
        /\ \E c \in 1..Len(ent.claims[IMPORTANT_PROPERTIES[k][1]]) :
             ent.claims[IMPORTANT_PROPERTIES[k][1]][c] = id}}

\* the ids of textual links that are also the id of a structural relation
Collisions(ent) ==
  {id \in {WikiId(ent.links[i]) : i \in 1..Len(ent.links)} :
     ent.hasLinks /\ StructuralTypes(ent, id) # {}}

\* C10: when a textual link's id collides with the id of a structural
\* relation of the same entity, the node and the edge of that id carry score
\* 3, origin wikidata and a structural relation type.
C10_StructuralWins ==
  \A id \in Collisions(centerEntity) :
    /\ \A i \in 1..Len(graph.edges) :
         graph.edges[i].target = id =>
           /\ graph.edges[i].value = SCORE_STRUCTURAL
           /\ graph.edges[i].origin = "wikidata"
           /\ graph.edges[i].type \in StructuralTypes(centerEntity, id)
    /\ \A i \in 1..Len(graph.nodes) :
         (graph.nodes[i].id = id /\ ~IsCenterNode(graph.nodes[i])) =>
           /\ graph.nodes[i].score = SCORE_STRUCTURAL
           /\ graph.nodes[i].type \in StructuralTypes(centerEntity, id)

\* the colliding link sits beyond the first ten (it would score 1) and its
\* node and edge are in the returned graph
C10_Witness ==
  /\ Returned
  /\ centerEntity.hasLinks
  /\ Len(centerEntity.links) > ContextualLinks
  /\ centerEntity.links[ContextualLinks + 1] = Jazz
  /\ WikiId(Jazz) \in Collisions(centerEntity)
  /\ WikiId(Jazz) \in NodeIds(graph)
  /\ \E i \in 1..Len(graph.edges) : graph.edges[i].target = WikiId(Jazz)

\* the candidates of the center before the score filter
Candidates == extractConnectedEntities(centerEntity)

\* C11: candidates scoring below 2 are dropped before the cap: no node other
\* than the center and no edge of any built graph has score / value 1, also
\* when fewer than maxNodesPerLevel candidates of score >= 2 exist.
C11_NoAssociative ==
  /\ \A i \in 1..Len(graph.edges) : graph.edges[i].value >= SCORE_CONTEXTUAL
  /\ \A i \in 1..Len(graph.nodes) :
       ~IsCenterNode(graph.nodes[i]) => graph.nodes[i].score >= SCORE_CONTEXTUAL

\* a returned graph whose center has a candidate of score 1 and fewer
\* candidates of score >= 2 than the cap leaves room for
C11_Witness ==
  /\ Returned
  /\ depth >= 1
  /\ \E i \in 1..Len(Candidates) : Candidates[i].score = SCORE_ASSOCIATIVE
  /\ Len(Eligible) >= 1
  /\ Len(Eligible) < maxNodesPerLevel
  /\ Len(graph.edges) = Len(Eligible)

\* the nodes of the graph other than the center
NewNodes == SelectSeq(graph.nodes, LAMBDA n : ~IsCenterNode(n))
TextualNodes(score) ==
  SelectSeq(NewNodes, LAMBDA n : StartsWith(n.id, WikiPrefix) /\ n.score = score)

\* C12: with depth 1 and maxNodesPerLevel 20, a center with 3 structural
\* relations and 40 textual links whose first 10 are not noise yields
\* exactly 3 structural nodes and edges at score 3, plus at most 17 textual
\* nodes (at most 10 contextual and at most 7 associative) selected by
\* descending score, and at most 20 new nodes in all.
C12_DefaultCallScenario ==
  Returned =>
    LET new == NewNodes
        ids == NodeIds(graph)
        left == SelectSeq(Candidates, LAMBDA c : c.id \notin ids)
    IN  /\ Len(SelectSeq(new, LAMBDA n : n.score = SCORE_STRUCTURAL)) = 3
        /\ Len(SelectSeq(graph.edges, LAMBDA e : e.value = SCORE_STRUCTURAL)) = 3
        /\ \A i \in 1..Len(new) :
             new[i].score = SCORE_STRUCTURAL <=> ~StartsWith(new[i].id, WikiPrefix)
        /\ Len(TextualNodes(SCORE_CONTEXTUAL)) <= ContextualLinks
        /\ Len(TextualNodes(SCORE_ASSOCIATIVE))
             <= DefaultMaxNodesPerLevel - 3 - ContextualLinks
        /\ Len(new) <= DefaultMaxNodesPerLevel
        /\ \A i, j \in 1..Len(new) : i < j => new[i].score >= new[j].score
        /\ \A k \in 1..Len(left) :
             \A i \in 1..Len(new) : left[k].score <= new[i].score

\* the ten first links and the thirty that follow are all titles of their
\* own: 43 candidates, of which the 3 structural and the 10 contextual ones
\* are in the returned graph
C12_Witness ==
  /\ Returned
  /\ Len(centerEntity.links) = ScenarioLinks
  /\ Len(Candidates) = ScenarioLinks + 3
  /\ Len(NewNodes) = 3 + ContextualLinks
  /\ Len(graph.edges) = 3 + ContextualLinks

\* the titles of the center's textual links the two year / century tests
\* of the noise filter match
YearOrCentury(ent) ==
  {ent.links[i] : i \in {k \in 1..Len(ent.links) :
      ent.hasLinks /\ (IsAllDigits(ent.links[k]) \/ Includes(ent.links[k], Siecle))}}

\* C13: a textual link whose title consists only of digits or contains the
\* century token never becomes a node or the target of an edge, at any
\* position of the link list and for any depth and breadth cap.
C13_NoiseNeverNode ==
  \A t \in YearOrCentury(centerEntity) :
    /\ WikiId(t) \notin NodeIds(graph)
    /\ \A i \in 1..Len(graph.edges) : graph.edges[i].target # WikiId(t)

\* a century title ahead of a link that did become a node
C13_Witness ==
  /\ Returned
  /\ depth >= 1
  /\ maxNodesPerLevel >= 1
  /\ centerEntity.links = <<XIXeSiecle, Jazz>>
  /\ \E i \in 1..Len(graph.nodes) :
       graph.nodes[i].id = WikiId(Jazz) /\ graph.nodes[i].score = SCORE_CONTEXTUAL

(***************************************************************************)
(* Properties of resolveEntity and resolveEntityFromCandidate (checked     *)
(* under SpecResolve).                                                     *)
(***************************************************************************)
\* resolveEntity has returned or thrown
Resolved == rpc = "done" /\ entry = "resolveEntity"
\* resolveEntityFromCandidate was called and has returned or thrown
CandidateDone == rpc = "done" /\ candArgs # NoArgs
CandidateIds == {candidates[i].wikidataId : i \in 1..Len(candidates)}

\* C1: resolve fails with NotFoundError, and returns neither an Entity nor a
\* Disambiguation, whenever the search returns no title or every title is
\* dropped, so that no candidate remains.
C1_NotFound ==
  (Resolved /\ scanned /\ found = {}) =>
    result.kind = "Error" /\ result.error \in NotFoundErrors

\* three titles were returned and every one of them was dropped
C1_Witness ==
  /\ Resolved
  /\ scanned
  /\ found = {}
  /\ Len(searchResults) = MaxTitles
  /\ result = Thrown("NoValidArticle")

\* C2 as stated: exactly one distinct canonical identifier => resolve
\* returns a full Entity.
C2_Original ==
  (Resolved /\ scanned /\ Cardinality(found) = 1) => result.kind = "Entity"

\* C2, amended: with exactly one distinct canonical identifier resolve hands
\* the call to resolveFromCandidate on that candidate's title and id and
\* ends as it ends: with the Entity when the canonical-record fetch
\* succeeds, with that fetch's failure otherwise; never a Disambiguation.
C2_EntityUnlessFetchFails ==
  (Resolved /\ scanned /\ Cardinality(found) = 1) =>
    /\ Len(candidates) = 1
    /\ candArgs = [title |-> candidates[1].title, wikidataId |-> candidates[1].wikidataId]
    /\ found = {candArgs.wikidataId}
    /\ result = candResult
    /\ \/ result = EntityResult /\ entity.id = candArgs.wikidataId
       \/ result = Thrown("CanonicalFailed") /\ entity = NoResolved

\* several titles, one identifier, and the Entity is returned
C2_Witness ==
  /\ Resolved
  /\ scanned
  /\ Cardinality(found) = 1
  /\ Len(searchResults) = MaxTitles
  /\ result = EntityResult
  /\ entity.id = Q2

\* C3: two or more distinct canonical identifiers => resolve returns
\* {needsDisambiguation: true, candidates}, with as many candidates as
\* distinct identifiers found and no identifier twice.
C3_Disambiguation ==
  (Resolved /\ scanned /\ Cardinality(found) >= 2) =>
    /\ result = DisambiguationResult
    /\ Len(candidates) = Cardinality(found)
    /\ CandidateIds = found
    /\ \A i, j \in 1..Len(candidates) :
         candidates[i].wikidataId = candidates[j].wikidataId => i = j

\* more titles than distinct identifiers
C3_Witness ==
  /\ Resolved
  /\ scanned
  /\ Len(searchResults) = MaxTitles
  /\ Cardinality(found) = 2
  /\ Len(candidates) = 2
  /\ result = DisambiguationResult

\* C4: resolveFromCandidate returns an Entity whenever the canonical-record
\* fetch succeeds, whichever enrichments fail; the only failure it
\* propagates is that of the canonical-record fetch.
C4_BestEffort ==
  CandidateDone =>
    /\ candResult # Pending
    /\ entity # NoResolved =>
         candResult = EntityResult /\ entity.id = candArgs.wikidataId
    /\ candResult.kind = "Error" =>
         candResult = Thrown("CanonicalFailed") /\ entity = NoResolved

\* every enrichment that issued a request failed, and the entity is returned
C4_Witness ==
  /\ CandidateDone
  /\ entry = "resolveEntityFromCandidate"
  /\ candResult = EntityResult
  /\ failedCalls = {"wikipedia", "external_links", "musicbrainz",
                    "wikimedia_commons", "archive_org"}

\* C5 as stated: NotFoundError is the only error resolve surfaces, whatever
\* the outcome of the search call and of the lookup calls.
C5_Original ==
  (Resolved /\ result.kind = "Error") => result.error \in NotFoundErrors

\* C5, amended: resolve surfaces NotFoundError, or unchanged the failure of
\* one of its own calls (the search, a per-candidate lookup, the
\* canonical-record fetch); a failure of an enrichment is never surfaced.
C5_SurfacedErrors ==
  Resolved =>
    /\ result.kind = "Error" =>
         \/ result.error \in NotFoundErrors /\ scanned /\ found = {}
         \/ result.error = "SearchFailed" /\ ~scanned /\ idx = 0
         \/ result.error = "LookupFailed" /\ ~scanned /\ idx >= 1
         \/ /\ result.error = "CanonicalFailed"
            /\ scanned
            /\ candResult = Thrown("CanonicalFailed")
    /\ failedCalls # {} => result = EntityResult

\* the second lookup failed and its failure reached the caller
C5_Witness ==
  /\ Resolved
  /\ result = Thrown("LookupFailed")
  /\ idx = 2
  /\ Len(candidates) = 1

\* the base entity has been built
Built == entity # NoResolved
\* a request of operation p has been issued
Requested(p) == \E r \in requests : r[1] = p

\* C14: for an entity of type concept the media-archive enrichment issues no
\* request and sources.archive_org stays absent while the preprint
\* enrichment runs its search; for every other type the preprint enrichment
\* has no effect; no entity carries both sources.arxiv and
\* sources.archive_org.
C14_ConceptSkipsArchive ==
  Built =>
    /\ entity.type = "concept" =>
         /\ ~Requested("archive_org")
         /\ "archive_org" \notin DOMAIN entity.sources
         /\ Requested("arxiv")
    /\ entity.type # "concept" =>
         /\ ~Requested("arxiv")
         /\ "arxiv" \notin DOMAIN entity.sources
    /\ ~({"arxiv", "archive_org"} \subseteq DOMAIN entity.sources)

\* a concept is returned with the papers the preprint search found
C14_Witness ==
  /\ CandidateDone
  /\ candResult = EntityResult
  /\ entity.type = "concept"
  /\ "arxiv" \in DOMAIN entity.sources

\* C15: for every enrichment operation, if one of its provider calls fails,
\* the returned entity has no sources.<name> key for that provider and no
\* error reaches the caller, also when the operation makes several calls and
\* a later one fails.
C15_FailedProviderAbsent ==
  (CandidateDone /\ failedCalls # {}) =>
    /\ candResult = EntityResult
    /\ \A p \in failedCalls : p \notin DOMAIN entity.sources

\* the types the entity record documents
DocumentedTypes == {"person", "place", "work", "concept", "entity"}

\* C19: the type of the entity built from a record is one of person, place,
\* work, concept, entity; it is determined by the first "instance of" value
\* only, and is entity when that claim is absent or its first value is not
\* in the lookup table.
C19_TypeInFixedSet ==
  Built =>
    LET first == FirstValue(entity.sources["wikidata"].claims, "P31")
    IN  /\ entity.type \in DocumentedTypes
        /\ (\A k \in 1..Len(typeMap) : typeMap[k][1] # first) => entity.type = "entity"
        /\ \A k \in 1..Len(typeMap) : typeMap[k][1] = first => entity.type = typeMap[k][2]

\* C16: under every interleaving of the enrichment operations the keys of
\* entity.sources only grow: no operation removes a key or changes the
\* value under a key written by another provider, and the structured-data
\* key written at creation is never removed or replaced.
C16_SourcesAdditive ==
  [][Built =>
       \A k \in DOMAIN entity.sources :
         /\ k \in DOMAIN entity'.sources
         /\ entity'.sources[k] # entity.sources[k] =>
              (k \in EnrichmentNames /\ epc'[k] # epc[k])]_vars

\* six keys written by six different writers are on the returned entity
C16_Witness ==
  /\ CandidateDone
  /\ candResult = EntityResult
  /\ DOMAIN entity.sources = {"wikidata", "wikipedia", "external_links", "musicbrainz",
                              "wikimedia_commons", "archive_org"}
  /\ entity.sources["wikipedia"].hasLinks

\* C17: the id of the entity is the canonical id passed to
\* resolveEntityFromCandidate; no step of an enrichment and no step of
\* buildGraph changes the id, name, type or identifiers of the entity, and
\* the graph is built around that same id, name and type.
C17_IdentityFixed ==
  /\ [](Built => entity.id = candArgs.wikidataId)
  /\ [][Built => Identity(entity') = Identity(entity)]_vars
  /\ []((Built /\ gpc # "idle") =>
          /\ centerEntity.id = entity.id
          /\ centerEntity.name = entity.name
          /\ centerEntity.type = entity.type)

\* enrichments have written their keys and the graph of the entity is built
C17_Witness ==
  /\ Built
  /\ gpc = "done"
  /\ Cardinality(DOMAIN entity.sources) >= 3
  /\ Len(graph.nodes) >= 2
  /\ entity.id = candArgs.wikidataId

\* the second of two calls with the same arguments has returned, having
\* received the same record and read the same language as the first
SecondReturned ==
  /\ previous # NoPrevious
  /\ rpc = "done"
  /\ candResult = EntityResult
  /\ previous.args = candArgs
  /\ previous.fetched = fetched

\* C18: two calls of resolveEntityFromCandidate with the same title and id,
\* the same provider record and the same language return entities with the
\* same id, name, type and identifiers, whatever the order in which the
\* enrichments of either call completed or failed.
C18_SameIdentity == SecondReturned => Identity(entity) = previous.entity

\* the second call returned after enrichments completed, one of them failing
C18_Witness ==
  /\ SecondReturned
  /\ failedCalls # {}
  /\ Cardinality(DOMAIN entity.sources) >= 3

\* C20: getLanguage returns the argument of the latest setLanguage; a request
\* whose URL carries a language carries the value CURRENT_LANG has in the
\* step that issues it, and a later setLanguage alters no request already
\* issued.
C20_LanguageAtIssue ==
  /\ [](lastSet # NoLang => getLanguage(CURRENT_LANG) = lastSet)
  /\ [][\A r \in requests' \ requests :
          r[1] \in Localised => r[2] = CURRENT_LANG]_vars
  /\ [][requests \subseteq requests']_vars

\* one resolution whose search, lookup and links requests were issued under
\* languages switched in between
C20_Witness ==
  /\ entry = "resolveEntity"
  /\ Request("search", "en") \in requests
  /\ Request("lookup", "fr") \in requests
  /\ Request("wikipedia", "fr") \in requests
  /\ Request("wikipedia.links", "en") \in requests
  /\ lastSet = "en"

\* C21: resolveEntityFromCandidate starts the nine enrichments together and
\* returns only once each has run to its end, pauses included; the failure
\* of one changes the position of no other, and every enrichment reaches its
\* end whichever of the others failed.
C21_JoinWaitsForAll ==
  /\ [](rpc = "enrich" => \A p \in EnrichmentNames : epc[p] # "idle")
  /\ [](candResult = EntityResult => \A p \in EnrichmentNames : epc[p] = "done")
  /\ [][\A p \in failedCalls' \ failedCalls :
          \A q \in EnrichmentNames \ {p} : epc'[q] = epc[q]]_vars
  /\ \A q \in EnrichmentNames :
        (rpc = "enrich" /\ failedCalls # {}) ~> (epc[q] = "done")
  /\ (rpc = "enrich") ~> (candResult = EntityResult)

\* the call returned after the paced operation paused and wrote its key,
\* while two other operations failed
C21_Witness ==
  /\ candResult = EntityResult
  /\ "wikipedia" \in failedCalls
  /\ Cardinality(failedCalls) >= 2
  /\ "musicbrainz" \in DOMAIN entity.sources

\* C22: at most one lookup awaits its answer at any time, and the lookup of
\* title i+1 is issued only in the step that receives the answer of title
\* i; the candidates are, in the order of their first answer, the ids the
\* lookups answered with, each with the post-redirect title of the first
\* answer that carried it.
C22_SequentialLookups ==
  /\ [](Cardinality(inFlight) <= 1)
  /\ [](rpc = "lookup" <=> inFlight = {idx})
  /\ [][\A i \in inFlight' \ inFlight :
          i > 1 => (i - 1) \in inFlight /\ (i - 1) \notin inFlight']_vars
  /\ [](candidates = firstSeen)

\* three titles were looked up one after the other; the second and third
\* redirect to ids already seen or new, under titles that differ
C22_Witness ==
  /\ scanned
  /\ Len(searchResults) = 3
  /\ Len(candidates) = 2
  /\ candidates[1].wikidataId = Q2
  /\ candidates[2].wikidataId = Q1
  /\ candidates[1].title # searchResults[1]

\* the label a node is created with: the name of the entity for the center,
\* the title for a textual link, the raw id for a structural relation
Placeholder(n) ==
  IF IsCenterNode(n) THEN centerEntity.name
  ELSE IF n.type = "related"
         THEN SubSeq(n.id, Len(WikiPrefix) + 1, Len(n.id))
         ELSE n.id

\* C23: when the batched label lookup throws (or answers without entities:
\* the map of labels is then empty as well), buildGraph returns the graph as
\* it stood before the lookup, every label at the value the node was
\* created with; whatever the outcome of the lookup, the edges and every
\* field of every node but the label are those built before it.
C23_LabelFailureTolerated ==
  /\ [](labelOutcome = "empty" =>
          /\ Returned
          /\ \A i \in 1..Len(graph.nodes) :
                graph.nodes[i].label = Placeholder(graph.nodes[i]))
  /\ [][(gpc = "awaitLabels" /\ labelOutcome' = "empty") => graph' = graph]_vars
  /\ [][gpc = "awaitLabels" =>
          /\ graph'.edges = graph.edges
          /\ Len(graph'.nodes) = Len(graph.nodes)
          /\ \A i \in 1..Len(graph.nodes) :
                [graph'.nodes[i] EXCEPT !.label = graph.nodes[i].label]
                  = graph.nodes[i]]_vars

\* the lookup gave no label on a graph holding a structural and a textual node
C23_Witness ==
  /\ labelOutcome = "empty"
  /\ Returned
  /\ \E i, j \in 2..Len(graph.nodes) :
        /\ graph.nodes[i].label = graph.nodes[i].id
        /\ graph.nodes[j].type = "related"
  /\ Len(graph.edges) >= 2

\* C24: the label pass issues one batched lookup that covers every node id
\* starting with Q, in the language current when it is issued.
C24_LabelsInCurrentLanguage ==
  gpc = "awaitLabels" =>
    /\ Len(labelRequest) = 1
    /\ labelRequest[1].ids = qidsToTranslate(graph.nodes)
    /\ labelRequest[1].languages = CURRENT_LANG

\* the positions whose resolution is in flight
InFlightPositions == {k \in 1..Len(entityIds) : status[k] = "pending"}

\* the values of the fulfilled positions, in the order of the input
FulfilledInOrder == Fulfilled(entityIds, status, 1..Len(entityIds))

\* the ids are taken in consecutive chunks of at most maxConcurrent: never
\* more than maxConcurrent resolutions in flight, the batch is the positions
\* i+1 .. i+maxConcurrent, and nothing beyond it has started
ChunkDiscipline ==
  /\ Cardinality(InFlightPositions) <= (IF maxConcurrent > 0 THEN maxConcurrent ELSE 0)
  /\ cpc = "batch" =>
        CurrentBatch = {k \in 1..Len(entityIds) : ci < k /\ k <= ci + maxConcurrent}
  /\ \A k \in 1..Len(entityIds) :
        (status[k] = "unstarted") <=> (k > ci + maxConcurrent \/ cpc = "idle")

\* a resolution starts only at the call or when a pause ends, with nothing
\* in flight and every position of the earlier chunks settled
StartsAfterSettled ==
  \A k \in 1..Len(entityIds') :
    (status'[k] = "pending" /\ (cpc = "idle" \/ status[k] # "pending")) =>
      /\ cpc \in {"idle", "pause"}
      /\ cpc = "pause" => InFlightPositions = {}
      /\ \A j \in 1..(k - 1) :
            status'[j] = "pending" \/
              (cpc = "pause" /\ status[j] \in {"fulfilled", "rejected"})

\* the values collected are those of the fulfilled positions of the chunks
\* that are over, in the order of the input, rejected ones left out
ResultsInOrder ==
  /\ cpc = "done" =>
        /\ InFlightPositions = {}
        /\ results = FulfilledInOrder
  /\ cpc \in {"batch", "pause"} =>
        results = Fulfilled(entityIds, status,
                    {k \in 1..Len(entityIds) :
                       IF cpc = "pause" THEN status[k] # "unstarted"
                       ELSE status[k] # "unstarted" /\ k \notin CurrentBatch})

\* C25 as stated, for every maxConcurrent.
C25_Original ==
  /\ [](cpc # "idle" => ChunkDiscipline)
  /\ [][StartsAfterSettled]_vars
  /\ []ResultsInOrder

\* C25: for maxConcurrent >= 1 the ids are resolved in consecutive chunks of
\* at most maxConcurrent: never more than maxConcurrent resolutions are in
\* flight, and a resolution starts only when none is in flight, every
\* earlier position has settled and the pause is over. For maxConcurrent
\* <= 0 the only chunk that holds ids is the first, entityIds.slice(0,
\* maxConcurrent): every id but the last -maxConcurrent, resolved together.
\* In both cases the values collected are those of the fulfilled positions,
\* in the order of the input.
C25_Chunks ==
  /\ []((cpc # "idle" /\ maxConcurrent >= 1) => ChunkDiscipline)
  /\ []((cpc # "idle" /\ maxConcurrent <= 0) =>
          /\ InFlightPositions \subseteq
                {k \in 1..Len(entityIds) : k <= Len(entityIds) + maxConcurrent}
          /\ ci < 0 => InFlightPositions = {})
  /\ [][StartsAfterSettled]_vars
  /\ []ResultsInOrder

\* four ids in chunks of three: the second chunk has returned, one
\* resolution of each chunk was rejected or fulfilled
C25_Witness ==
  /\ cpc = "done"
  /\ Len(entityIds) = 4
  /\ maxConcurrent = 3
  /\ status[2] = "rejected"
  /\ status[4] = "fulfilled"
  /\ Len(results) = 3

\* C30: for maxConcurrent <= 0 and a non-empty list the loop index never
\* passes the end of the list and the call never returns; for maxConcurrent
\* >= 1 the call returns once every resolution and pause is over.
C30_Termination ==
  /\ []((maxConcurrent <= 0 /\ entityIds # <<>>) =>
          (cpc # "done" /\ ci < Len(entityIds)))
  /\ (cpc # "idle" /\ maxConcurrent >= 1) ~> (cpc = "done")
  /\ (cpc # "idle" /\ entityIds = <<>>) ~> (cpc = "done")

\* a call with a negative maxConcurrent on its fourth empty round
C30_Witness ==
  /\ entityIds # <<>>
  /\ maxConcurrent < 0
  /\ ci <= 0 - 3
  /\ cpc = "pause"

\* every handler call that started has run to its end
AllCompleted ==
  /\ startOrder # <<>>
  /\ \A o \in Calls : handlers[o].pc \in {"idle", "done"}

\* the handler call started last
Latest == startOrder[Len(startOrder)]

\* C26: once every handler call has completed, the entity and the graph
\* shown are those of the call started last, and the center of the graph
\* is the entity shown.
C26_LatestWins ==
  AllCompleted =>
    /\ pageEntity # Null => pageEntity.by = Latest
    /\ pageGraph # Null => pageGraph.by = Latest
    /\ (pageEntity # Null /\ pageGraph # Null) => pageGraph.id = pageEntity.id

\* the candidates of the center that come from its textual links
TextualCandidates == SelectSeq(Candidates, LAMBDA c : c.source = "wikipedia")

\* the titles among the first ten entries of the center's link list
FirstTen ==
  {centerEntity.links[k] :
     k \in {j \in 1..Len(centerEntity.links) : j <= ContextualLinks}}

\* C27: a textual candidate has score 2 exactly when its title is among the
\* first 10 entries of the link list, noise entries counted, and score 1
\* otherwise; no noise title is a candidate, every other title is one unless
\* a structural relation has its id; at most 10 candidates are contextual.
C27_ContextualFirstTen ==
  (gpc = "loop" /\ queue # <<>>) =>
    LET textual == TextualCandidates
        all == Candidates
    IN  /\ \A i \in 1..Len(textual) :
              /\ ~isLinkNoise(textual[i].label)
              /\ textual[i].score =
                    (IF textual[i].label \in FirstTen
                       THEN SCORE_CONTEXTUAL ELSE SCORE_ASSOCIATIVE)
        /\ \A k \in 1..Len(centerEntity.links) :
              (centerEntity.hasLinks /\ ~isLinkNoise(centerEntity.links[k])) =>
                \E i \in 1..Len(all) : all[i].id = WikiId(centerEntity.links[k])
        /\ Len(SelectSeq(textual, LAMBDA c : c.score = SCORE_CONTEXTUAL))
              <= ContextualLinks

\* ten noise entries, then a title at index 10: it is the first that is not
\* noise and it is associative
C27_Witness ==
  /\ gpc = "loop"
  /\ queue # <<>>
  /\ centerEntity.hasLinks
  /\ centerEntity.links = NoisePad \o <<Jazz>>
  /\ \E i \in 1..Len(TextualCandidates) :
        /\ TextualCandidates[i].label = Jazz
        /\ TextualCandidates[i].score = SCORE_ASSOCIATIVE

\* the graph buildGraph holds after its loop when called with depth 1
DepthOneGraph(e, cap) ==
  LET st == Expand([nodes |-> <<createNode(e, 0, TRUE)>>, edges |-> <<>>,
                    visited |-> {e.id}],
                   e.id, 0, LimitEntities(extractConnectedEntities(e), cap))
  IN  [nodes |-> st.nodes, edges |-> st.edges]

\* C28: the queue never holds anything but the center it is seeded with;
\* every node has level 0 or 1 and every edge leaves the center; when the
\* loop is over the graph is, for every depth >= 1, the one depth 1 gives,
\* and for depth <= 0 the center node alone, without edges.
C28_OneLevelOnly ==
  /\ [](gpc # "idle" =>
          /\ queue \in {<<>>, <<[entity |-> centerEntity, level |-> 0]>>}
          /\ \A i \in 1..Len(graph.nodes) : graph.nodes[i].level \in {0, 1}
          /\ \A i \in 1..Len(graph.edges) : graph.edges[i].source = centerEntity.id)
  /\ [][queue' = queue \/ queue' = <<>> \/ gpc = "idle"]_vars
  /\ []((gpc = "loop" /\ queue = <<>>) =>
          graph = IF depth >= 1
                    THEN DepthOneGraph(centerEntity, maxNodesPerLevel)
                    ELSE [nodes |-> <<createNode(centerEntity, 0, TRUE)>>,
                          edges |-> <<>>])
  /\ []((gpc \in {"awaitLabels", "done"} /\ depth <= 0) =>
          Len(graph.nodes) = 1 /\ graph.edges = <<>>)

\* a call with depth 2 returned a graph with nodes around the center
C28_Witness ==
  /\ Returned
  /\ depth = 2
  /\ Len(graph.nodes) >= 3
  /\ Len(graph.edges) >= 2

\* C29: after a lookup that answered with entities, every node whose id
\* starts with Q, the center included, is labelled with the label the
\* response holds for it or else with its raw id, never with the label it
\* was created with; the other nodes keep theirs.
C29_RawIdWhenNoLabel ==
  labelOutcome = "entities" =>
    \A i \in 1..Len(graph.nodes) :
      LET n == graph.nodes[i]
      IN  IF StartsWith(n.id, <<"Q">>)
            THEN n.label \in {LabelOf(n.id), n.id}
            ELSE n.label = Placeholder(n)

\* the response had no label for the center: the center is labelled with
\* its id, not with the name of the entity
C29_Witness ==
  /\ labelOutcome = "entities"
  /\ Returned
  /\ IsCenterNode(graph.nodes[1])
  /\ graph.nodes[1].label = centerEntity.id
  /\ graph.nodes[1].label # centerEntity.name
  /\ Len(graph.nodes) >= 2

====
